--------------------------- MODULE OrderLifecycle ---------------------------
(***************************************************************************)
(* The life of an order in the Speedy Sweeties backend: creation with      *)
(* automatic dispatch, manual assignment and unassignment, the driver's    *)
(* actions, digital receipts, staff cancellation and staff edits.          *)
(*                                                                         *)
(* Every HTTP request in flight occupies a slot of Requests. A handler     *)
(* awaits the database between its statements, so it is split into one     *)
(* action per statement (or transaction) that reads or writes shared rows: *)
(* what a handler read is kept in its slot's snap and may be stale when a  *)
(* later action of the same handler uses it. A transaction that holds the  *)
(* row locks it needs is one action; module AllocationLocks opens them.    *)
(***************************************************************************)
EXTENDS OrderPolicy

CONSTANTS
    Orders,      \* order ids that may be created
    Drivers,     \* accounts that are or have been drivers
    Users,       \* dispatchers and administrators
    Customers,   \* ordinary customers
    Reviewer,    \* the synthetic customer of store reviewers
    Requests,    \* slots for HTTP requests in flight
    NoOrder, NoDriver, NoUser, NoCustomer,   \* SQL NULLs
    MaxTime      \* bound on the wall clock

ASSUME LifecycleAssumption ==
    /\ NoOrder \notin Orders
    /\ NoDriver \notin Drivers
    /\ NoUser \notin Users
    /\ NoCustomer \notin Customers
    /\ Reviewer \notin Customers
    /\ Reviewer # NoCustomer
    /\ MaxTime \in Nat

VARIABLES
    order,          \* [Orders -> Row], the Order table
    receipt,        \* [Orders -> BOOLEAN], a DigitalReceipt row exists
    firstAssigned,  \* [Orders -> Nat], earliest occurredAt of an ASSIGNED event
    credited,       \* [Orders -> Nat], loyalty credits recorded for the order
    access,         \* [Drivers -> BOOLEAN], an active DRIVER, no password reset due
    available,      \* [Drivers -> BOOLEAN], visible, online and recently seen
    autoDispatch,   \* the autoDispatchEnabled system setting
    clock,          \* wall clock of the server
    req             \* [Requests -> Request], handlers in flight

vars == <<order, receipt, firstAssigned, credited, access, available,
          autoDispatch, clock, req>>

-----------------------------------------------------------------------------
RowStatuses == Statuses \cup {"ABSENT"}

Row == [status: RowStatuses,
        driver: Drivers \cup {NoDriver},
        customer: Customers \cup {Reviewer, NoCustomer},
        assignedAt: Nat, dispatchedAt: Nat, acceptedAt: Nat,
        outForDeliveryAt: Nat, deliveredAt: Nat,
        dispatchSource: Sources,
        dispatchedByUserId: Users \cup {NoUser},
        cancelledFrom: RowStatuses]

AbsentRow == [status |-> "ABSENT", driver |-> NoDriver, customer |-> NoCustomer,
              assignedAt |-> 0, dispatchedAt |-> 0, acceptedAt |-> 0,
              outForDeliveryAt |-> 0, deliveredAt |-> 0,
              dispatchSource |-> "NONE", dispatchedByUserId |-> NoUser,
              cancelledFrom |-> "ABSENT"]

\* Mutant: the row is inserted with a status the enum does not have.
NewRow_UnknownStatus(c) == [AbsentRow EXCEPT !.status = "NEW", !.customer = c]

\* A row as prisma.order.create inserts it.
NewRow(c) == [AbsentRow EXCEPT !.status = "PLACED", !.customer = c]

PCs == {"idle", "plan", "allocate", "policy", "write", "event", "loyalty"}

Kinds == {"none", "create", "assign", "unassign", "action", "cancel", "edit"}

Request == [pc: PCs, kind: Kinds,
            order: Orders \cup {NoOrder},
            driver: Drivers \cup {NoDriver},
            user: Users \cup {NoUser},
            target: RowStatuses,
            priority: BOOLEAN,
            customer: Customers \cup {NoCustomer},
            snap: Row,
            now: Nat]

Idle == [pc |-> "idle", kind |-> "none", order |-> NoOrder, driver |-> NoDriver,
         user |-> NoUser, target |-> "ABSENT", priority |-> FALSE,
         customer |-> NoCustomer, snap |-> AbsentRow, now |-> 0]

\* The handler of slot r answers its client.
Respond(r) == req' = [req EXCEPT ![r] = Idle]

Exists(o) == order[o].status # "ABSENT"

Unfinished(row) == row.status \in operationalStatuses

\* lockAssignableDriver: the WHERE clause of its locking SELECT.
lockAssignableDriver(d) == access[d] /\ available[d]

Earliest(t, u) == IF t = 0 \/ u < t THEN u ELSE t

TypeOK ==
    /\ order \in [Orders -> Row]
    /\ receipt \in [Orders -> BOOLEAN]
    /\ firstAssigned \in [Orders -> Nat]
    /\ credited \in [Orders -> Nat]
    /\ access \in [Drivers -> BOOLEAN]
    /\ available \in [Drivers -> BOOLEAN]
    /\ autoDispatch \in BOOLEAN
    /\ clock \in Nat \ {0}
    /\ req \in [Requests -> Request]

Init ==
    /\ order = [o \in Orders |-> AbsentRow]
    /\ receipt = [o \in Orders |-> FALSE]
    /\ firstAssigned = [o \in Orders |-> 0]
    /\ credited = [o \in Orders |-> 0]
    /\ access = [d \in Drivers |-> TRUE]
    /\ available = [d \in Drivers |-> FALSE]
    /\ autoDispatch = TRUE
    /\ clock = 1
    /\ req = [r \in Requests |-> Idle]

rowsOnly == <<receipt, firstAssigned, credited, access, available, autoDispatch, clock>>

allButReq == <<order, rowsOnly>>

-----------------------------------------------------------------------------
(***************************************************************************)
(* createOrder and autoDispatchCreatedOrderWithPickupPlan                  *)
(***************************************************************************)

\* The creating transaction; an ordinary order goes on to automatic dispatch.
CreateOrder(r, o, c) ==
    /\ req[r].pc = "idle"
    /\ ~Exists(o)
    /\ order' = [order EXCEPT ![o] = NewRow(c)]
    /\ req' = [req EXCEPT ![r] = [Idle EXCEPT !.pc = "plan", !.kind = "create",
                                              !.order = o]]
    /\ UNCHANGED rowsOnly

\* A reviewer's order is cancelled by finishSyntheticOrder before the creating
\* transaction commits, and is never dispatched.
CreateSyntheticOrder(o) ==
    /\ ~Exists(o)
    /\ order' = [order EXCEPT ![o] = [NewRow(Reviewer) EXCEPT
                    !.status = "CANCELLED", !.cancelledFrom = "PLACED"]]
    /\ UNCHANGED <<rowsOnly, req>>

\* Reads the setting, the order and the drivers, then asks for routes. An order
\* without verified coordinates or a routing failure is held.
AutoDispatchPlan(r) ==
    LET row == order[req[r].order] IN
    /\ req[r].pc = "plan"
    /\ \/ /\ autoDispatch
          /\ row.status = "PLACED"
          /\ row.driver = NoDriver
          /\ req' = [req EXCEPT ![r].pc = "allocate"]
       \/ Respond(r)
    /\ UNCHANGED allButReq

\* The allocation transaction: rechecks the setting and the locked order, then
\* assigns one of the drivers that are still assignable.
AutoDispatchAllocate(r) ==
    LET o == req[r].order
        row == order[o]
    IN
    /\ req[r].pc = "allocate"
    /\ autoDispatch
    /\ row.driver = NoDriver
    /\ evaluateOrderStatusTransition("AUTO_DISPATCH", row.status, "DISPATCHED", FALSE)
    /\ \E d \in Drivers :
          /\ lockAssignableDriver(d)
          /\ order' = [order EXCEPT ![o] =
                [buildOrderTransitionTimestampData(row, row, "DISPATCHED", clock) EXCEPT
                    !.status = "DISPATCHED", !.driver = d, !.assignedAt = clock,
                    !.dispatchSource = "AUTO", !.dispatchedByUserId = NoUser]]
          /\ req' = [req EXCEPT ![r].pc = "event", ![r].driver = d]
    /\ UNCHANGED rowsOnly

\* The setting, the order or every candidate driver changed meanwhile.
AutoDispatchHeld(r) ==
    /\ req[r].pc = "allocate"
    /\ \/ ~autoDispatch
       \/ order[req[r].order].status # "PLACED"
       \/ order[req[r].order].driver # NoDriver
       \/ \E d \in Drivers : ~lockAssignableDriver(d)
    /\ Respond(r)
    /\ UNCHANGED allButReq

-----------------------------------------------------------------------------
(***************************************************************************)
(* assignDriverToOrderController                                           *)
(***************************************************************************)

\* driverId given: the first read of the order.
AssignRead(r, o, d, u, p) ==
    /\ req[r].pc = "idle"
    /\ Exists(o)
    /\ order[o].status \notin FinalStatuses
    /\ req' = [req EXCEPT ![r] = [Idle EXCEPT !.pc = "policy", !.kind = "assign",
                    !.order = o, !.driver = d, !.user = u, !.priority = p,
                    !.snap = order[o]]]
    /\ UNCHANGED allButReq

\* The driver row is read, an unchanged assignment answered at once, and the
\* status policy consulted about the snapshot.
AssignPolicy(r) ==
    LET q == req[r] IN
    /\ q.pc = "policy"
    /\ q.kind = "assign"
    /\ access[q.driver]
    /\ available[q.driver]
    /\ q.snap.driver # q.driver \/ q.priority
    /\ q.snap.status = "PLACED" =>
          evaluateOrderStatusTransition("MANUAL_ASSIGNMENT", q.snap.status,
                                        "DISPATCHED", FALSE)
    /\ req' = [req EXCEPT ![r].pc = "write", ![r].now = clock]
    /\ UNCHANGED allButReq

\* The row that a manual assignment writes over row.
AssignedRow(row, q) ==
    LET mark == q.snap.status \in {"PLACED", "DISPATCHED"}
        stamped == buildOrderTransitionTimestampData(row, q.snap, "DISPATCHED", q.now)
        marked == [getFirstDispatchAttribution(stamped, q.snap, "MANUAL", q.user)
                      EXCEPT !.status = "DISPATCHED"]
    IN  [(IF mark THEN marked ELSE row) EXCEPT
            !.driver = q.driver,
            !.assignedAt = IF q.snap.driver # q.driver THEN q.now
                           ELSE Coalesce(q.snap.assignedAt, q.now)]

\* Mutant: the driver is not locked and checked again inside the transaction.
AssignCommit_DriverNotRechecked(r) ==
    LET q == req[r] IN
    /\ q.pc = "write"
    /\ q.kind = "assign"
    /\ order[q.order].status = q.snap.status
    /\ order' = [order EXCEPT ![q.order] = AssignedRow(@, q)]
    /\ IF q.snap.driver # q.driver
       THEN req' = [req EXCEPT ![r].pc = "event"]
       ELSE Respond(r)
    /\ UNCHANGED rowsOnly

\* The assignment transaction: order row lock, driver row lock, then an update
\* conditional on the status of the snapshot.
AssignCommit(r) ==
    LET q == req[r] IN
    /\ q.pc = "write"
    /\ q.kind = "assign"
    /\ lockAssignableDriver(q.driver)
    /\ order[q.order].status = q.snap.status
    /\ order' = [order EXCEPT ![q.order] = AssignedRow(@, q)]
    /\ IF q.snap.driver # q.driver
       THEN req' = [req EXCEPT ![r].pc = "event"]
       ELSE Respond(r)
    /\ UNCHANGED rowsOnly

\* driverId null: the read and, without an await in between, the policy.
UnassignRead(r, o, u) ==
    /\ req[r].pc = "idle"
    /\ Exists(o)
    /\ order[o].status \notin FinalStatuses
    /\ order[o].status = "DISPATCHED" =>
          evaluateOrderStatusTransition("MANUAL_UNASSIGNMENT", order[o].status,
                                        "PLACED", FALSE)
    /\ req' = [req EXCEPT ![r] = [Idle EXCEPT !.pc = "write", !.kind = "unassign",
                    !.order = o, !.user = u, !.snap = order[o]]]
    /\ UNCHANGED allButReq

\* Mutant: the dispatch time survives the return to PLACED.
UnassignedRow_KeepsDispatchTime(row, snap) ==
    [(IF snap.status = "DISPATCHED"
      THEN [row EXCEPT !.status = "PLACED",
                       !.dispatchedByUserId = NoUser, !.dispatchSource = "NONE"]
      ELSE row) EXCEPT !.driver = NoDriver, !.assignedAt = 0]

\* What unassigning writes over row; an order not yet accepted is PLACED again.
UnassignedRow(row, snap) ==
    [(IF snap.status = "DISPATCHED"
      THEN [row EXCEPT !.status = "PLACED", !.dispatchedAt = 0,
                       !.dispatchedByUserId = NoUser, !.dispatchSource = "NONE"]
      ELSE row) EXCEPT !.driver = NoDriver, !.assignedAt = 0]

UnassignCommit(r) ==
    LET q == req[r] IN
    /\ q.pc = "write"
    /\ q.kind = "unassign"
    /\ order[q.order].status = q.snap.status
    /\ order' = [order EXCEPT ![q.order] = UnassignedRow(@, q.snap)]
    /\ IF q.snap.driver # NoDriver
       THEN req' = [req EXCEPT ![r].pc = "event"]
       ELSE Respond(r)
    /\ UNCHANGED rowsOnly

\* recordDispatchEventBestEffort after an assignment. Only an ASSIGNED event (no
\* driver in the snapshot) can become the order's first one; a manual event
\* carries the handler's now, an automatic one the time of the insert.
RecordDispatchEvent(r) ==
    LET q == req[r]
        at == IF q.kind = "create" THEN clock ELSE q.now
        assigned == q.kind \in {"create", "assign"} /\ q.snap.driver = NoDriver
    IN
    /\ q.pc = "event"
    /\ firstAssigned' = IF assigned
                        THEN [firstAssigned EXCEPT ![q.order] = Earliest(@, at)]
                        ELSE firstAssigned
    /\ Respond(r)
    /\ UNCHANGED <<order, receipt, credited, access, available, autoDispatch, clock>>

-----------------------------------------------------------------------------
(***************************************************************************)
(* driverActionController                                                  *)
(***************************************************************************)

\* The order is read and must be assigned to the calling driver.
DriverActionRead(r, o, d, target) ==
    /\ req[r].pc = "idle"
    /\ Exists(o)
    /\ order[o].driver = d
    /\ req' = [req EXCEPT ![r] = [Idle EXCEPT !.pc = "policy", !.kind = "action",
                    !.order = o, !.driver = d, !.target = target, !.snap = order[o]]]
    /\ UNCHANGED allButReq

\* Mutant: the driver's word replaces the receipt.
DriverActionPolicy_ReceiptAssumed(r) ==
    LET q == req[r] IN
    /\ q.pc = "policy"
    /\ q.kind = "action"
    /\ evaluateOrderStatusTransition("DRIVER_ACTION", q.snap.status, q.target, TRUE)
    /\ req' = [req EXCEPT ![r].pc = "write", ![r].now = clock]
    /\ UNCHANGED allButReq

\* The receipt is read (for pickup and delivery) and the policy consulted.
DriverActionPolicy(r) ==
    LET q == req[r]
        hasReceipt == q.target \in {"OUT_FOR_DELIVERY", "DELIVERED"} /\ receipt[q.order]
    IN
    /\ q.pc = "policy"
    /\ q.kind = "action"
    /\ evaluateOrderStatusTransition("DRIVER_ACTION", q.snap.status, q.target, hasReceipt)
    /\ req' = [req EXCEPT ![r].pc = "write", ![r].now = clock]
    /\ UNCHANGED allButReq

\* Mutant: the update is conditional on the driver alone.
DriverActionCommit_StatusNotCompared(r) ==
    LET q == req[r] IN
    /\ q.pc = "write"
    /\ q.kind = "action"
    /\ order[q.order].driver = q.driver
    /\ order' = [order EXCEPT ![q.order] =
                    [getFirstDispatchAttribution(
                        buildOrderTransitionTimestampData(@, q.snap, q.target, q.now),
                        q.snap, "DRIVER", NoUser)
                     EXCEPT !.status = q.target]]
    /\ IF q.target = "DELIVERED"
       THEN req' = [req EXCEPT ![r].pc = "loyalty"]
       ELSE Respond(r)
    /\ UNCHANGED rowsOnly

\* The compare-and-set on driver and status; a delivery goes on to loyalty.
DriverActionCommit(r) ==
    LET q == req[r] IN
    /\ q.pc = "write"
    /\ q.kind = "action"
    /\ order[q.order].driver = q.driver
    /\ order[q.order].status = q.snap.status
    /\ order' = [order EXCEPT ![q.order] =
                    [getFirstDispatchAttribution(
                        buildOrderTransitionTimestampData(@, q.snap, q.target, q.now),
                        q.snap, "DRIVER", NoUser)
                     EXCEPT !.status = q.target]]
    /\ IF q.target = "DELIVERED"
       THEN req' = [req EXCEPT ![r].pc = "loyalty"]
       ELSE Respond(r)
    /\ UNCHANGED rowsOnly

\* recordDeliveredOrderLoyalty, called once by the winner of the delivery update.
RecordLoyalty(r) ==
    /\ req[r].pc = "loyalty"
    /\ credited' = [credited EXCEPT ![req[r].order] = @ + 1]
    /\ Respond(r)
    /\ UNCHANGED <<order, receipt, firstAssigned, access, available, autoDispatch, clock>>

-----------------------------------------------------------------------------
(***************************************************************************)
(* createOrUpdateReceiptController: one transaction; for a driver it holds *)
(* the order's row lock.                                                   *)
(***************************************************************************)

ReceiptByDriver(o, d) ==
    LET row == order[o] IN
    /\ Exists(o)
    /\ row.customer # Reviewer
    /\ row.driver = d
    /\ receipt' = [receipt EXCEPT ![o] = TRUE]
    /\ IF evaluateOrderStatusTransition("RECEIPT", row.status, "OUT_FOR_DELIVERY", TRUE)
       THEN order' = [order EXCEPT ![o] =
                [buildOrderTransitionTimestampData(row, row, "OUT_FOR_DELIVERY", clock)
                 EXCEPT !.status = "OUT_FOR_DELIVERY"]]
       ELSE order' = order
    /\ UNCHANGED <<firstAssigned, credited, access, available, autoDispatch, clock, req>>

ReceiptByStaff(o) ==
    /\ Exists(o)
    /\ order[o].customer # Reviewer
    /\ receipt' = [receipt EXCEPT ![o] = TRUE]
    /\ UNCHANGED <<order, firstAssigned, credited, access, available, autoDispatch,
                   clock, req>>

-----------------------------------------------------------------------------
(***************************************************************************)
(* updateOrderStatusController (cancellation only) and                     *)
(* updateOrderDetailsController                                            *)
(***************************************************************************)

CancelRead(r, o) ==
    /\ req[r].pc = "idle"
    /\ Exists(o)
    /\ evaluateOrderStatusTransition("STAFF_CANCELLATION", order[o].status,
                                     "CANCELLED", FALSE)
    /\ req' = [req EXCEPT ![r] = [Idle EXCEPT !.pc = "write", !.kind = "cancel",
                    !.order = o, !.snap = order[o]]]
    /\ UNCHANGED allButReq

\* Mutant: the cancellation updates the order by id, not by id and status.
CancelCommit_ById(r) ==
    LET q == req[r] IN
    /\ q.pc = "write"
    /\ q.kind = "cancel"
    /\ order' = [order EXCEPT ![q.order].status = "CANCELLED",
                              ![q.order].cancelledFrom = q.snap.status]
    /\ Respond(r)
    /\ UNCHANGED rowsOnly

CancelCommit(r) ==
    LET q == req[r] IN
    /\ q.pc = "write"
    /\ q.kind = "cancel"
    /\ order[q.order].status = q.snap.status
    /\ order' = [order EXCEPT ![q.order].status = "CANCELLED",
                              ![q.order].cancelledFrom = q.snap.status]
    /\ Respond(r)
    /\ UNCHANGED rowsOnly

\* The edit reads the order, then verifies the address with the geocoder.
EditRead(r, o, c) ==
    /\ req[r].pc = "idle"
    /\ Exists(o)
    /\ order[o].status \notin FinalStatuses
    /\ req' = [req EXCEPT ![r] = [Idle EXCEPT !.pc = "write", !.kind = "edit",
                    !.order = o, !.customer = c]]
    /\ UNCHANGED allButReq

\* The edit transaction updates the row by id alone.
EditCommit(r) ==
    LET q == req[r] IN
    /\ q.pc = "write"
    /\ q.kind = "edit"
    /\ order' = [order EXCEPT ![q.order].customer = q.customer]
    /\ Respond(r)
    /\ UNCHANGED rowsOnly

-----------------------------------------------------------------------------
(***************************************************************************)
(* Refusals, failures and the environment                                  *)
(***************************************************************************)

\* A handler stops before its next statement: a 4xx answer of its policy or of
\* a compare-and-set that matched no row, a failed best-effort insert, a lost
\* database connection, or the process going down.
Stop(r) ==
    /\ req[r].pc # "idle"
    /\ Respond(r)
    /\ UNCHANGED allButReq

\* Heartbeats, going online or offline, hiding a driver, growing stale.
PresenceChange(d) ==
    /\ available' = [available EXCEPT ![d] = ~@]
    /\ UNCHANGED <<order, receipt, firstAssigned, credited, access, autoDispatch,
                   clock, req>>

\* changeStaff with accessChanges: the driver's row is locked, and a driver with
\* unfinished deliveries is refused.
RevokeAccess(d) ==
    /\ access[d]
    /\ \A o \in Orders : ~(order[o].driver = d /\ Unfinished(order[o]))
    /\ access' = [access EXCEPT ![d] = FALSE]
    /\ available' = [available EXCEPT ![d] = FALSE]
    /\ UNCHANGED <<order, receipt, firstAssigned, credited, autoDispatch, clock, req>>

\* Reactivation, a role change back, or changeStaffPassword after a reset: all
\* of them sign the account out.
RestoreAccess(d) ==
    /\ ~access[d]
    /\ access' = [access EXCEPT ![d] = TRUE]
    /\ available' = [available EXCEPT ![d] = FALSE]
    /\ UNCHANGED <<order, receipt, firstAssigned, credited, autoDispatch, clock, req>>

updateAutoDispatchSettings ==
    /\ autoDispatch' = ~autoDispatch
    /\ UNCHANGED <<order, receipt, firstAssigned, credited, access, available, clock, req>>

Tick ==
    /\ clock < MaxTime
    /\ clock' = clock + 1
    /\ UNCHANGED <<order, receipt, firstAssigned, credited, access, available,
                   autoDispatch, req>>

-----------------------------------------------------------------------------
RequestStep(r) ==
    \/ \E o \in Orders, c \in Customers : CreateOrder(r, o, c)
    \/ AutoDispatchPlan(r)
    \/ AutoDispatchAllocate(r)
    \/ AutoDispatchHeld(r)
    \/ \E o \in Orders, d \in Drivers, u \in Users, p \in BOOLEAN :
          AssignRead(r, o, d, u, p)
    \/ AssignPolicy(r)
    \/ AssignCommit(r)
    \/ \E o \in Orders, u \in Users : UnassignRead(r, o, u)
    \/ UnassignCommit(r)
    \/ RecordDispatchEvent(r)
    \/ \E o \in Orders, d \in Drivers,
          target \in {"ACCEPTED", "OUT_FOR_DELIVERY", "DELIVERED"} :
          DriverActionRead(r, o, d, target)
    \/ DriverActionPolicy(r)
    \/ DriverActionCommit(r)
    \/ RecordLoyalty(r)
    \/ \E o \in Orders : CancelRead(r, o)
    \/ CancelCommit(r)
    \/ \E o \in Orders, c \in Customers : EditRead(r, o, c)
    \/ EditCommit(r)
    \/ Stop(r)

Environment ==
    \/ \E o \in Orders : CreateSyntheticOrder(o)
    \/ \E o \in Orders, d \in Drivers : ReceiptByDriver(o, d)
    \/ \E o \in Orders : ReceiptByStaff(o)
    \/ \E d \in Drivers : PresenceChange(d)
    \/ \E d \in Drivers : RevokeAccess(d)
    \/ \E d \in Drivers : RestoreAccess(d)
    \/ updateAutoDispatchSettings
    \/ Tick

Next == (\E r \in Requests : RequestStep(r)) \/ Environment

Spec == Init /\ [][Next]_vars

-----------------------------------------------------------------------------
(***************************************************************************)
(* Properties                                                              *)
(***************************************************************************)

\* An order is out for delivery or delivered only with a persisted receipt, even
\* when the receipt was checked by an earlier statement than the update that
\* moved the order (driverActionController reads it before its compare-and-set).
ReceiptBeforePickup ==
    \A o \in Orders :
        order[o].status \in {"OUT_FOR_DELIVERY", "DELIVERED"} => receipt[o]

\* The columns of one row that must agree with its status.
StatusTimes(row) ==
    /\ row.status = "PLACED" =>
          row.driver = NoDriver /\ row.assignedAt = 0 /\ row.dispatchedAt = 0
    /\ row.status \in {"PLACED", "DISPATCHED"} => row.acceptedAt = 0
    /\ row.status \in {"DISPATCHED", "ACCEPTED", "OUT_FOR_DELIVERY", "DELIVERED"} =>
          row.dispatchedAt # 0
    /\ row.status \in {"ACCEPTED", "OUT_FOR_DELIVERY", "DELIVERED"} => row.acceptedAt # 0
    /\ row.outForDeliveryAt # 0 <=>
          \/ row.status \in {"OUT_FOR_DELIVERY", "DELIVERED"}
          \/ row.cancelledFrom = "OUT_FOR_DELIVERY"
    /\ row.deliveredAt # 0 <=> row.status = "DELIVERED"

\* The stages of one row, no later than now.
OrderedTimes(row, now) ==
    /\ row.acceptedAt # 0 => row.dispatchedAt <= row.acceptedAt
    /\ row.outForDeliveryAt # 0 => row.acceptedAt <= row.outForDeliveryAt
    /\ row.deliveredAt # 0 => row.outForDeliveryAt <= row.deliveredAt
    /\ \A t \in {row.dispatchedAt, row.acceptedAt, row.outForDeliveryAt,
                 row.deliveredAt} : t <= now

\* Dispatch time, source and dispatcher of one row go together.
AttributedRow(row) ==
    /\ row.dispatchedAt # 0 <=> row.dispatchSource \in {"AUTO", "MANUAL"}
    /\ row.dispatchSource # "DRIVER"
    /\ row.dispatchedByUserId # NoUser <=> row.dispatchSource = "MANUAL"

\* The timestamp columns of a row never contradict its status: an order waiting
\* for dispatch carries no trace of an earlier dispatch, a dispatched one has not
\* been accepted, and later stages have every earlier timestamp, although each
\* handler writes the timestamps of its own, possibly stale, snapshot.
TimestampsMatchStatus == \A o \in Orders : StatusTimes(order[o])

\* The stages of a delivery happened in their order, as the timestamps of the
\* row tell it: dispatch, acceptance, pickup, delivery, none in the future.
TimestampsInOrder == \A o \in Orders : OrderedTimes(order[o], clock)

\* A row is credited to a dispatcher or to automatic dispatch exactly while it
\* carries a dispatch time, only a manual dispatch names a user, and the driver
\* is never credited, because no order reaches a driver undispatched. Dispatcher
\* performance is computed from these three columns.
DispatchAttribution == \A o \in Orders : AttributedRow(order[o])

\* A driver with an unfinished delivery is an active driver who can sign in:
\* changeStaff refuses to take the access away, and every assignment rechecks it
\* under the same row lock.
AssignedDriverKeepsAccess ==
    \A o \in Orders :
        Unfinished(order[o]) /\ order[o].driver # NoDriver => access[order[o].driver]

\* recordDeliveredOrderLoyalty runs at most once for an order, and only for a
\* delivered one, whatever the number of concurrent DELIVERED requests.
LoyaltyAtMostOnce ==
    \A o \in Orders : /\ credited[o] <= 1
                      /\ credited[o] = 1 => order[o].status = "DELIVERED"

\* Nothing but the customer of a delivered or cancelled order ever changes: the
\* handlers that were in flight when it ended all lose their compare-and-set.
FinalRowsFrozen ==
    [][\A o \in Orders : order[o].status \in FinalStatuses =>
          order'[o] = [order[o] EXCEPT !.customer = order'[o].customer]]_vars

\* What updateOrderDetailsController answers: "Delivered or cancelled orders
\* cannot be edited". Its check precedes the geocoding of the new address and is
\* not repeated, so this does not hold of the code.
FinalOrdersNotEdited ==
    [][\A o \in Orders : order[o].status \in FinalStatuses =>
          order'[o].customer = order[o].customer]_vars

\* The status, the assigned driver, the receipt and the driver's access seen
\* through the order workflow that OrderStatusSpec promises.
Abstract == INSTANCE OrderStatusSpec WITH
    status <- [o \in Orders |-> order[o].status],
    assignee <- [o \in Orders |-> order[o].driver],
    hasReceipt <- receipt,
    trusted <- access

\* Every step of every handler, however interleaved, is a step of the documented
\* status matrix or leaves status, driver, receipt and access alone.
ImplementsStatusMatrix == Abstract!AbsSpec
=============================================================================
