--------------------------- MODULE AllocationLocks ---------------------------
(***************************************************************************)
(* The row locks behind the assignment of orders: the allocation           *)
(* transaction of automatic dispatch, the transaction of a manual          *)
(* assignment and changeStaff, statement by statement, over the READ       *)
(* COMMITTED tables of Order and User. OrderLifecycle takes each of these  *)
(* transactions as one action; this module shows what that rests on.       *)
(*                                                                         *)
(* A FOR UPDATE lock is held to the end of its transaction, and a single   *)
(* UPDATE statement waits for it. What a transaction reads is what others  *)
(* have committed; its own writes are its last statement, so committing    *)
(* and writing are one action.                                             *)
(***************************************************************************)
EXTENDS OrderPolicy, FiniteSets, TLC

CONSTANTS
    Orders,
    Drivers,
    Rob,            \* ROB_DRIVER_ID
    Limit,          \* ROB_ACTIVE_ORDER_LIMIT
    RobPriority,    \* isRobPriorityEnabled
    Txns,           \* database connections that run one of the transactions
    NoDriver, NoOrder, NoTxn

ASSUME AllocationAssumption ==
    /\ IsFiniteSet(Orders)
    /\ Rob \in Drivers
    /\ Limit \in Nat \ {0}
    /\ RobPriority \in BOOLEAN
    /\ NoDriver \notin Drivers
    /\ NoOrder \notin Orders
    /\ NoTxn \notin Txns
    /\ Orders \cap Drivers = {}

VARIABLES
    order,          \* [Orders -> Row], the committed rows
    account,        \* [Drivers -> Account], the committed rows
    lock,           \* [Orders \cup Drivers -> Txns \cup {NoTxn}], row locks
    txn             \* [Txns -> Txn]

vars == <<order, account, lock, txn>>

Rows == Orders \cup Drivers

Row == [status: Statuses, driver: Drivers \cup {NoDriver}, source: Sources]

\* access: an active DRIVER without a password reset due. online: visible and
\* online. Whether lastSeenAt is recent is left open: it changes without a write.
Account == [access: BOOLEAN, online: BOOLEAN]

Txn == [pc: {"idle", "lockOrder", "readDrivers", "lockRob", "count", "select",
             "lockDriver", "write", "lockAccount", "countUnfinished"},
        kind: {"none", "auto", "manual", "access"},
        order: Orders \cup {NoOrder},
        driver: Drivers \cup {NoDriver},
        snap: Statuses,
        candidates: SUBSET Drivers]

Idle == [pc |-> "idle", kind |-> "none", order |-> NoOrder, driver |-> NoDriver,
         snap |-> "PLACED", candidates |-> {}]

TypeOK ==
    /\ order \in [Orders -> Row]
    /\ account \in [Drivers -> Account]
    /\ lock \in [Rows -> Txns \cup {NoTxn}]
    /\ txn \in [Txns -> Txn]

Init ==
    /\ order = [o \in Orders |-> [status |-> "PLACED", driver |-> NoDriver, source |-> "NONE"]]
    /\ account = [d \in Drivers |-> [access |-> TRUE, online |-> TRUE]]
    /\ lock = [x \in Rows |-> NoTxn]
    /\ txn = [t \in Txns |-> Idle]

-----------------------------------------------------------------------------
\* The WHERE clause of lockAssignableDriver, but for lastSeenAt.
Assignable(d) == account[d].access /\ account[d].online

Unfinished(o) == order[o].status \in operationalStatuses

Workload(d) == Cardinality({o \in Orders : order[o].driver = d /\ Unfinished(o)})

\* COMMIT or ROLLBACK: every lock of the transaction is released.
Released(t) == [x \in Rows |-> IF lock[x] = t THEN NoTxn ELSE lock[x]]

End(t) ==
    /\ lock' = Released(t)
    /\ txn' = [txn EXCEPT ![t] = Idle]

Goto(t, pc) == txn' = [txn EXCEPT ![t].pc = pc]

\* SELECT ... FOR UPDATE of row x by transaction t.
Lock(t, x) ==
    /\ lock[x] \in {NoTxn, t}
    /\ lock' = [lock EXCEPT ![x] = t]

\* lockAssignableDriver finds no row: the driver's last heartbeat is too old, or
\* the driver is not assignable. It has locked a row that stopped to match while
\* it waited, and no row when none matched before.
LockFails(t, d) == UNCHANGED lock \/ (~Assignable(d) /\ Lock(t, d))

-----------------------------------------------------------------------------
(***************************************************************************)
(* autoDispatchCreatedOrderWithPickupPlan: the allocation transaction      *)
(***************************************************************************)

\* The routes are planned. The transaction begins and reads the setting.
AutoBegin(t, o) ==
    /\ txn[t].pc = "idle"
    /\ txn' = [txn EXCEPT ![t] = [Idle EXCEPT !.pc = "lockOrder", !.kind = "auto",
                                              !.order = o]]
    /\ UNCHANGED <<order, account, lock>>

AutoLockOrder(t) ==
    LET q == txn[t] IN
    /\ q.pc = "lockOrder"
    /\ q.kind = "auto"
    /\ Lock(t, q.order)
    /\ Goto(t, "readDrivers")
    /\ UNCHANGED <<order, account>>

\* ORDER_CHANGED: the row was locked, and the transaction ends.
AutoOrderChanged(t) ==
    LET q == txn[t] IN
    /\ q.pc = "readDrivers"
    /\ \/ order[q.order].status # "PLACED"
       \/ order[q.order].driver # NoDriver
    /\ End(t)
    /\ UNCHANGED <<order, account>>

\* The candidates: drivers that are assignable now, had a route in the plan and
\* are at the position it was computed from.
AutoReadDrivers(t) ==
    LET q == txn[t] IN
    /\ q.pc = "readDrivers"
    /\ order[q.order].status = "PLACED"
    /\ order[q.order].driver = NoDriver
    /\ \E candidates \in SUBSET {d \in Drivers : Assignable(d)} :
          txn' = [txn EXCEPT ![t].candidates = candidates,
                             ![t].pc = IF RobPriority /\ Rob \in candidates
                                       THEN "lockRob" ELSE "select"]
    /\ UNCHANGED <<order, account, lock>>

\* Rob's row is locked before his orders are counted.
AutoLockRob(t) ==
    /\ txn[t].pc = "lockRob"
    /\ \/ /\ Assignable(Rob)
          /\ Lock(t, Rob)
          /\ Goto(t, "count")
       \/ /\ LockFails(t, Rob)
          /\ txn' = [txn EXCEPT ![t].pc = "select", ![t].candidates = @ \ {Rob}]
    /\ UNCHANGED <<order, account>>

\* Mutant: the limit itself is still allowed.
AutoCount_AtLimit(t) ==
    /\ txn[t].pc = "count"
    /\ txn' = IF Workload(Rob) <= Limit
              THEN [txn EXCEPT ![t].pc = "write", ![t].driver = Rob]
              ELSE [txn EXCEPT ![t].pc = "select", ![t].candidates = @ \ {Rob}]
    /\ UNCHANGED <<order, account, lock>>

\* Below the limit Rob is preferred.
AutoCount(t) ==
    /\ txn[t].pc = "count"
    /\ txn' = IF Workload(Rob) < Limit
              THEN [txn EXCEPT ![t].pc = "write", ![t].driver = Rob]
              ELSE [txn EXCEPT ![t].pc = "select", ![t].candidates = @ \ {Rob}]
    /\ UNCHANGED <<order, account, lock>>

\* selectAutoDispatchAllocationCandidate; the driver with the shortest route can
\* be any of the candidates. NO_ROUTEABLE_DRIVERS when none is left.
AutoSelect(t) ==
    /\ txn[t].pc = "select"
    /\ IF txn[t].candidates = {}
       THEN End(t)
       ELSE /\ \E d \in txn[t].candidates :
                  txn' = [txn EXCEPT ![t].pc = "lockDriver", ![t].driver = d]
            /\ UNCHANGED lock
    /\ UNCHANGED <<order, account>>

\* Mutant: the row is read and not locked.
LockDriver_ReadOnly(t) ==
    /\ txn[t].pc = "lockDriver"
    /\ \/ Assignable(txn[t].driver) /\ Goto(t, "write") /\ UNCHANGED lock
       \/ End(t)
    /\ UNCHANGED <<order, account>>

\* Of both kinds: lockAssignableDriver, then the update or the end.
LockDriver(t) ==
    /\ txn[t].pc = "lockDriver"
    /\ \/ Assignable(txn[t].driver) /\ Lock(t, txn[t].driver) /\ Goto(t, "write")
       \/ End(t)
    /\ UNCHANGED <<order, account>>

\* The conditional update, and COMMIT.
AutoCommit(t) ==
    LET q == txn[t]
        row == order[q.order]
    IN
    /\ q.pc = "write"
    /\ q.kind = "auto"
    /\ order' = IF row.status = "PLACED" /\ row.driver = NoDriver
                THEN [order EXCEPT ![q.order] = [status |-> "DISPATCHED",
                                                 driver |-> q.driver, source |-> "AUTO"]]
                ELSE order
    /\ End(t)
    /\ UNCHANGED account

-----------------------------------------------------------------------------
(***************************************************************************)
(* The transaction of assignDriverToOrderController                        *)
(***************************************************************************)

\* Mutant: the driver's row first.
ManualBegin_DriverFirst(t, o, d) ==
    /\ txn[t].pc = "idle"
    /\ Unfinished(o)
    /\ Assignable(d)
    /\ Lock(t, d)
    /\ txn' = [txn EXCEPT ![t] = [Idle EXCEPT !.pc = "lockOrder", !.kind = "manual",
                                     !.order = o, !.driver = d, !.snap = order[o].status]]
    /\ UNCHANGED <<order, account>>

\* The handler has read the order and checked the driver before it begins.
ManualBegin(t, o, d) ==
    /\ txn[t].pc = "idle"
    /\ Unfinished(o)
    /\ Assignable(d)
    /\ txn' = [txn EXCEPT ![t] = [Idle EXCEPT !.pc = "lockOrder", !.kind = "manual",
                                     !.order = o, !.driver = d, !.snap = order[o].status]]
    /\ UNCHANGED <<order, account, lock>>

ManualLockOrder(t) ==
    LET q == txn[t] IN
    /\ q.pc = "lockOrder"
    /\ q.kind = "manual"
    /\ Lock(t, q.order)
    /\ Goto(t, "lockDriver")
    /\ UNCHANGED <<order, account>>

ManualCommit(t) ==
    LET q == txn[t]
        dispatches == q.snap \in {"PLACED", "DISPATCHED"}
        first == q.snap = "PLACED"
    IN
    /\ q.pc = "write"
    /\ q.kind = "manual"
    /\ order' = IF order[q.order].status = q.snap
                THEN [order EXCEPT
                        ![q.order].driver = q.driver,
                        ![q.order].status = IF dispatches THEN "DISPATCHED" ELSE @,
                        ![q.order].source = IF first THEN "MANUAL" ELSE @]
                ELSE order
    /\ End(t)
    /\ UNCHANGED account

-----------------------------------------------------------------------------
(***************************************************************************)
(* changeStaff with accessChanges, for a driver                            *)
(***************************************************************************)

AccessBegin(t, d) ==
    /\ txn[t].pc = "idle"
    /\ txn' = [txn EXCEPT ![t] = [Idle EXCEPT !.pc = "lockAccount", !.kind = "access",
                                              !.driver = d]]
    /\ UNCHANGED <<order, account, lock>>

\* Mutant: the account is read without lockStaffAccount.
lockStaffAccount_NotHeld(t) ==
    /\ txn[t].pc = "lockAccount"
    /\ Goto(t, "countUnfinished")
    /\ UNCHANGED <<order, account, lock>>

lockStaffAccount(t) ==
    /\ txn[t].pc = "lockAccount"
    /\ Lock(t, txn[t].driver)
    /\ Goto(t, "countUnfinished")
    /\ UNCHANGED <<order, account>>

\* A driver with unfinished deliveries is refused.
CountUnfinished(t) ==
    /\ txn[t].pc = "countUnfinished"
    /\ IF Workload(txn[t].driver) > 0
       THEN End(t)
       ELSE Goto(t, "write") /\ UNCHANGED lock
    /\ UNCHANGED <<order, account>>

AccessCommit(t) ==
    LET q == txn[t] IN
    /\ q.pc = "write"
    /\ q.kind = "access"
    /\ account' = [account EXCEPT ![q.driver].access = FALSE, ![q.driver].online = FALSE]
    /\ End(t)
    /\ UNCHANGED order

-----------------------------------------------------------------------------
(***************************************************************************)
(* Rollbacks, and single statements that wait for no more than their row   *)
(***************************************************************************)

\* The transaction runs into its timeout, or its connection is lost.
Rollback(t) ==
    /\ txn[t].pc # "idle"
    /\ End(t)
    /\ UNCHANGED <<order, account>>

\* What the driver's actions and cancellations write: the status alone.
ChangeStatus(o, s) ==
    /\ lock[o] = NoTxn
    /\ \E actor \in {"DRIVER_ACTION", "STAFF_CANCELLATION"} :
          /\ actor = "DRIVER_ACTION" => order[o].driver # NoDriver
          /\ evaluateOrderStatusTransition(actor, order[o].status, s, TRUE)
    /\ order' = [order EXCEPT ![o].status = s]
    /\ UNCHANGED <<account, lock, txn>>

Unassign(o) ==
    /\ lock[o] = NoTxn
    /\ order[o].driver # NoDriver
    /\ Unfinished(o)
    /\ order' = [order EXCEPT
            ![o].driver = NoDriver,
            ![o].status = IF @ = "DISPATCHED" THEN "PLACED" ELSE @,
            ![o].source = IF order[o].status = "DISPATCHED" THEN "NONE" ELSE @]
    /\ UNCHANGED <<account, lock, txn>>

\* Going online, heartbeats, going offline, hiding and force logout.
SetPresence(d) ==
    /\ lock[d] = NoTxn
    /\ account' = [account EXCEPT ![d].online = ~@]
    /\ UNCHANGED <<order, lock, txn>>

\* Reactivation and a changed password sign the driver out.
RestoreAccess(d) ==
    /\ lock[d] = NoTxn
    /\ account' = [account EXCEPT ![d].access = TRUE, ![d].online = FALSE]
    /\ UNCHANGED <<order, lock, txn>>

-----------------------------------------------------------------------------
Progress(t) ==
    \/ AutoLockOrder(t)
    \/ AutoOrderChanged(t)
    \/ AutoReadDrivers(t)
    \/ AutoLockRob(t)
    \/ AutoCount(t)
    \/ AutoSelect(t)
    \/ LockDriver(t)
    \/ AutoCommit(t)
    \/ ManualLockOrder(t)
    \/ ManualCommit(t)
    \/ lockStaffAccount(t)
    \/ CountUnfinished(t)
    \/ AccessCommit(t)

Begin(t) ==
    \/ \E o \in Orders : AutoBegin(t, o)
    \/ \E o \in Orders, d \in Drivers : ManualBegin(t, o, d)
    \/ \E d \in Drivers : AccessBegin(t, d)

Statement ==
    \/ \E o \in Orders, s \in Statuses : ChangeStatus(o, s)
    \/ \E o \in Orders : Unassign(o)
    \/ \E d \in Drivers : SetPresence(d)
    \/ \E d \in Drivers : RestoreAccess(d)

Next == (\E t \in Txns : Begin(t) \/ Progress(t) \/ Rollback(t)) \/ Statement

Spec == Init /\ [][Next]_vars

\* For TLC: orders and connections are interchangeable, and drivers other than Rob.
Symmetric == Permutations(Orders) \cup Permutations(Txns)
             \cup Permutations(Drivers \ {Rob})

-----------------------------------------------------------------------------
(***************************************************************************)
(* Properties                                                              *)
(***************************************************************************)

\* The row that a transaction asks to lock next.
Wants(t) ==
    CASE txn[t].pc = "lockOrder" -> {txn[t].order}
      [] txn[t].pc = "lockRob" -> {Rob}
      [] txn[t].pc \in {"lockDriver", "lockAccount"} -> {txn[t].driver}
      [] OTHER -> {}

\* "Keep the same order-then-driver lock order used by automatic dispatch": no
\* set of transactions ever waits for rows held within the set, although an
\* allocation may hold Rob's row while it asks for another driver's.
NoDeadlock ==
    \A S \in (SUBSET Txns) \ {{}} :
        \E t \in S : \A x \in Wants(t) : lock[x] \notin S \ {t}

\* Automatic dispatch gives Rob an order only while the committed orders leave a
\* slot free: two allocations at a time cannot both take the last one, nor one
\* together with a manual assignment.
RobLimit ==
    [][\A o \in Orders :
          /\ order'[o].source = "AUTO"
          /\ order[o].source # "AUTO"
          /\ order'[o].driver = Rob
          /\ RobPriority
          => Workload(Rob) < Limit]_vars

\* At the instant an assignment commits, its driver may sign in, is visible and
\* online: the presence handlers and changeStaff wait for the locked row.
AssignedWhileOnline ==
    [][\A o \in Orders :
          /\ order'[o].driver # order[o].driver
          /\ order'[o].driver # NoDriver
          => account[order'[o].driver].access /\ account[order'[o].driver].online]_vars

\* "An order cannot be assigned between checking unfinished deliveries and
\* deactivating a driver."
UnfinishedKeepsAccess ==
    \A o \in Orders :
        Unfinished(o) /\ order[o].driver # NoDriver => account[order[o].driver].access
=============================================================================
