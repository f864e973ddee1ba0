------------------------ MODULE OrderLifecycleProofs ------------------------
(***************************************************************************)
(* Type correctness of OrderLifecycle, and the coherence of its rows: the  *)
(* handlers write columns computed from snapshots read by an earlier       *)
(* statement, so the inductive invariant speaks of the snapshots as well   *)
(* as of the rows.                                                         *)
(***************************************************************************)
EXTENDS OrderLifecycle, TLAPS

\* Rows as createOrderController inserts them, the absent row and an idle request
\* slot have the types of the table and of the handlers' local state.
LEMMA RowTypes ==
    /\ AbsentRow \in Row
    /\ \A c \in Customers \cup {Reviewer} : NewRow(c) \in Row
    /\ Idle \in Request
BY LifecycleAssumption DEF AbsentRow, NewRow, Row, RowStatuses, Statuses,
   operationalStatuses, FinalStatuses, Sources, Idle, Request, PCs, Kinds

\* buildOrderTransitionTimestampData, given a row and a possibly stale snapshot,
\* fills columns with timestamps only.
LEMMA TimestampDataType ==
    ASSUME NEW row \in Row, NEW snap \in Row, NEW target, NEW now \in Nat
    PROVE  buildOrderTransitionTimestampData(row, snap, target, now) \in Row
<1>1. \A t, u \in Nat : Coalesce(t, u) \in Nat
  BY DEF Coalesce
<1>2. /\ row.dispatchedAt \in Nat /\ row.acceptedAt \in Nat
      /\ row.outForDeliveryAt \in Nat /\ row.deliveredAt \in Nat
      /\ snap.assignedAt \in Nat /\ snap.dispatchedAt \in Nat /\ snap.acceptedAt \in Nat
      /\ snap.outForDeliveryAt \in Nat /\ snap.deliveredAt \in Nat
  BY DEF Row
<1>3. \A w, x, y, z \in Nat : [row EXCEPT !.dispatchedAt = w, !.acceptedAt = x,
                    !.outForDeliveryAt = y, !.deliveredAt = z] \in Row
  BY DEF Row
<1> QED
  BY <1>1, <1>2, <1>3 DEF buildOrderTransitionTimestampData

\* getFirstDispatchAttribution returns a row again, whatever the source.
LEMMA AttributionType ==
    ASSUME NEW row \in Row, NEW snap \in Row, NEW source \in Sources,
           NEW user \in Users \cup {NoUser}
    PROVE  getFirstDispatchAttribution(row, snap, source, user) \in Row
BY DEF getFirstDispatchAttribution, Row

\* The row that assignDriverToOrderController writes for a driver is a row.
LEMMA AssignedRowType ==
    ASSUME NEW row \in Row, NEW q \in Request
    PROVE  AssignedRow(row, q) \in Row
<1> DEFINE stamped == buildOrderTransitionTimestampData(row, q.snap, "DISPATCHED", q.now)
           attributed == getFirstDispatchAttribution(stamped, q.snap, "MANUAL", q.user)
<1>1. q.snap \in Row /\ q.now \in Nat /\ q.user \in Users \cup {NoUser} 
      /\ q.driver \in Drivers \cup {NoDriver}
  BY DEF Request
<1>2. stamped \in Row
  BY <1>1, TimestampDataType
<1>3. attributed \in Row
  BY <1>1, <1>2, AttributionType DEF Sources
<1> HIDE DEF stamped, attributed
<1>4. \A x \in Row : [x EXCEPT !.status = "DISPATCHED"] \in Row
  BY DEF Row, RowStatuses, Statuses, operationalStatuses
<1>5. \A x \in Row : \A t \in Nat : [x EXCEPT !.driver = q.driver, !.assignedAt = t] \in Row
  BY <1>1 DEF Row
<1>6. (IF q.snap.driver # q.driver THEN q.now ELSE Coalesce(q.snap.assignedAt, q.now)) \in Nat
  BY <1>1 DEF Coalesce, Row
<1> QED
  BY <1>3, <1>4, <1>5, <1>6 DEF AssignedRow, stamped, attributed

\* The row that assignDriverToOrderController writes for driverId null is a row.
LEMMA UnassignedRowType ==
    ASSUME NEW row \in Row, NEW snap \in Row
    PROVE  UnassignedRow(row, snap) \in Row
<1>1. [row EXCEPT !.status = "PLACED", !.dispatchedAt = 0,
                  !.dispatchedByUserId = NoUser, !.dispatchSource = "NONE"] \in Row
  BY DEF Row, RowStatuses, Statuses, operationalStatuses, Sources
<1>2. \A x \in Row : [x EXCEPT !.driver = NoDriver, !.assignedAt = 0] \in Row
  BY DEF Row
<1> QED
  BY <1>1, <1>2 DEF UnassignedRow

-----------------------------------------------------------------------------
\* The empty tables are well typed.
LEMMA TypeInit == Init => TypeOK
BY RowTypes, LifecycleAssumption DEF Init, TypeOK

\* A handler that moves to its next statement keeps a well-typed slot.
LEMMA RequestTypes ==
    /\ \A q \in Request, pc \in PCs : [q EXCEPT !.pc = pc] \in Request
    /\ \A q \in Request, pc \in PCs, n \in Nat :
          [q EXCEPT !.pc = pc, !.now = n] \in Request
    /\ \A q \in Request, pc \in PCs, d \in Drivers :
          [q EXCEPT !.pc = pc, !.driver = d] \in Request
BY DEF Request

\* Every statement of every handler, and every event of the environment, keeps the
\* types: one step of the proof per action.
LEMMA TypeNext == TypeOK /\ [Next]_vars => TypeOK'
<1> SUFFICES ASSUME TypeOK, [Next]_vars PROVE TypeOK'
  OBVIOUS
<1> USE LifecycleAssumption
<1>1. \A o : \A x \in Row : [order EXCEPT ![o] = x] \in [Orders -> Row]
  BY DEF TypeOK
<1>2. ASSUME NEW r \in Requests, RequestStep(r) PROVE TypeOK'
  <2>a. req[r] \in Request
    BY DEF TypeOK
  <2>b. /\ req[r].order \in Orders \cup {NoOrder}
        /\ req[r].driver \in Drivers \cup {NoDriver}
        /\ req[r].snap \in Row /\ req[r].now \in Nat /\ req[r].target \in RowStatuses
        /\ req[r].customer \in Customers \cup {NoCustomer}
    BY <2>a DEF Request
  <2>c. \A x \in Request : [req EXCEPT ![r] = x] \in [Requests -> Request]
    BY DEF TypeOK
  <2>d. \A pc \in PCs :
          /\ [req EXCEPT ![r].pc = pc] \in [Requests -> Request]
          /\ \A n \in Nat : [req EXCEPT ![r].pc = pc, ![r].now = n] \in [Requests -> Request]
          /\ \A d \in Drivers :
                [req EXCEPT ![r].pc = pc, ![r].driver = d] \in [Requests -> Request]
    BY <2>a, RequestTypes DEF TypeOK
  <2>e. Respond(r) => req' \in [Requests -> Request]
    BY <2>c, RowTypes DEF Respond
  <2>1. ASSUME NEW o \in Orders, NEW c \in Customers, CreateOrder(r, o, c) PROVE TypeOK'
    BY <2>1, <2>c, <1>1, RowTypes DEF CreateOrder, TypeOK, rowsOnly, Request, Idle, PCs, Kinds
  <2>2. CASE AutoDispatchPlan(r)
    BY <2>2, <2>d, <2>e, ZenonT(40) DEF AutoDispatchPlan, TypeOK, allButReq, rowsOnly, PCs
  <2>3. CASE AutoDispatchAllocate(r)
    <3> DEFINE o == req[r].order
               stamped == buildOrderTransitionTimestampData(order[o], order[o],
                                                            "DISPATCHED", clock)
    <3>1. PICK d \in Drivers :
            /\ order' = [order EXCEPT ![o] =
                 [stamped EXCEPT !.status = "DISPATCHED", !.driver = d, !.assignedAt = clock,
                    !.dispatchSource = "AUTO", !.dispatchedByUserId = NoUser]]
            /\ req' = [req EXCEPT ![r].pc = "event", ![r].driver = d]
      BY <2>3 DEF AutoDispatchAllocate
    <3>2. CASE o \notin Orders
      <4>1. \A x : [order EXCEPT ![o] = x] \in [Orders -> Row]
        BY <3>2 DEF TypeOK
      <4>2. order' \in [Orders -> Row]
        BY <3>1, <4>1
      <4> QED
        BY <3>1, <4>2, <2>3, <2>d DEF AutoDispatchAllocate, TypeOK, rowsOnly, PCs
    <3>3. CASE o \in Orders
      <4>1. stamped \in Row
        BY <3>3, TimestampDataType DEF TypeOK
      <4> HIDE DEF stamped
      <4>2. [stamped EXCEPT !.status = "DISPATCHED", !.driver = d, !.assignedAt = clock,
                    !.dispatchSource = "AUTO", !.dispatchedByUserId = NoUser] \in Row
        BY <4>1 DEF Row, TypeOK, RowStatuses, Statuses, operationalStatuses, Sources
      <4> QED
        BY <3>1, <4>2, <1>1, <2>3, <2>d DEF AutoDispatchAllocate, TypeOK, rowsOnly, PCs
    <3> QED
      BY <3>2, <3>3
  <2>4. CASE AutoDispatchHeld(r)
    BY <2>4, <2>e DEF AutoDispatchHeld, TypeOK, allButReq, rowsOnly
  <2>5. ASSUME NEW o \in Orders, NEW d \in Drivers, NEW u \in Users, NEW p \in BOOLEAN,
               AssignRead(r, o, d, u, p)
        PROVE  TypeOK'
    <3>1. [Idle EXCEPT !.pc = "policy", !.kind = "assign", !.order = o, !.driver = d,
                       !.user = u, !.priority = p, !.snap = order[o]] \in Request
      BY RowTypes DEF TypeOK, Request, PCs, Kinds
    <3> QED
      BY <3>1, <2>5, <2>c DEF AssignRead, TypeOK, allButReq, rowsOnly
  <2>6. CASE AssignPolicy(r)
    BY <2>6, <2>d DEF AssignPolicy, TypeOK, allButReq, rowsOnly, PCs
  <2>7. CASE AssignCommit(r)
    <3>1. order' \in [Orders -> Row]
      BY <2>7, <2>a, <1>1, AssignedRowType DEF AssignCommit, TypeOK
    <3>2. req' \in [Requests -> Request]
      BY <2>7, <2>d, <2>e DEF AssignCommit, PCs
    <3> QED
      BY <3>1, <3>2, <2>7 DEF AssignCommit, TypeOK, rowsOnly
  <2>8. ASSUME NEW o \in Orders, NEW u \in Users, UnassignRead(r, o, u) PROVE TypeOK'
    <3>1. [Idle EXCEPT !.pc = "write", !.kind = "unassign", !.order = o, !.user = u,
                       !.snap = order[o]] \in Request
      BY RowTypes DEF TypeOK, Request, PCs, Kinds
    <3> QED
      BY <3>1, <2>8, <2>c DEF UnassignRead, TypeOK, allButReq, rowsOnly
  <2>9. CASE UnassignCommit(r)
    <3>1. order' \in [Orders -> Row]
      BY <2>9, <2>b, <1>1, UnassignedRowType DEF UnassignCommit, TypeOK
    <3>2. req' \in [Requests -> Request]
      BY <2>9, <2>d, <2>e DEF UnassignCommit, PCs
    <3> QED
      BY <3>1, <3>2, <2>9 DEF UnassignCommit, TypeOK, rowsOnly
  <2>10. CASE RecordDispatchEvent(r)
    <3>1. \A t, u \in Nat : Earliest(t, u) \in Nat
      BY DEF Earliest
    <3> QED
      BY <3>1, <2>10, <2>b, <2>e DEF RecordDispatchEvent, TypeOK
  <2>11. ASSUME NEW o \in Orders, NEW d \in Drivers,
                NEW target \in {"ACCEPTED", "OUT_FOR_DELIVERY", "DELIVERED"},
                DriverActionRead(r, o, d, target)
         PROVE  TypeOK'
    <3>1. [Idle EXCEPT !.pc = "policy", !.kind = "action", !.order = o, !.driver = d,
                       !.target = target, !.snap = order[o]] \in Request
      BY RowTypes, ZenonT(40) DEF TypeOK, Request, PCs, Kinds, RowStatuses, Statuses,
                      operationalStatuses, FinalStatuses
    <3> QED
      BY <3>1, <2>11, <2>c DEF DriverActionRead, TypeOK, allButReq, rowsOnly
  <2>12. CASE DriverActionPolicy(r)
    BY <2>12, <2>d DEF DriverActionPolicy, TypeOK, allButReq, rowsOnly, PCs
  <2>13. CASE DriverActionCommit(r)
    <3>1. ASSUME NEW row \in Row
          PROVE  [getFirstDispatchAttribution(
                    buildOrderTransitionTimestampData(row, req[r].snap, req[r].target, req[r].now),
                    req[r].snap, "DRIVER", NoUser) EXCEPT !.status = req[r].target] \in Row
      <4>1. buildOrderTransitionTimestampData(row, req[r].snap, req[r].target, req[r].now) \in Row
        BY <2>b, TimestampDataType
      <4>2. getFirstDispatchAttribution(
                    buildOrderTransitionTimestampData(row, req[r].snap, req[r].target, req[r].now),
                    req[r].snap, "DRIVER", NoUser) \in Row
        BY <4>1, <2>b, AttributionType DEF Sources
      <4>3. \A x \in Row : [x EXCEPT !.status = req[r].target] \in Row
        BY <2>b DEF Row
      <4> QED
        BY <4>2, <4>3
    <3>2. order' \in [Orders -> Row]
      BY <2>13, <3>1, <1>1 DEF DriverActionCommit, TypeOK
    <3>3. req' \in [Requests -> Request]
      BY <2>13, <2>d, <2>e DEF DriverActionCommit, PCs
    <3> QED
      BY <3>2, <3>3, <2>13 DEF DriverActionCommit, TypeOK, rowsOnly
  <2>14. CASE RecordLoyalty(r)
    <3>1. credited' \in [Orders -> Nat]
      <4>1. \A o \in Orders : credited[o] \in Nat /\ credited[o] + 1 \in Nat
        BY DEF TypeOK
      <4>2. credited' = [credited EXCEPT ![req[r].order] = credited[req[r].order] + 1]
        BY <2>14 DEF RecordLoyalty
      <4> QED
        BY <4>1, <4>2 DEF TypeOK
    <3> QED
      BY <3>1, <2>14, <2>e DEF RecordLoyalty, TypeOK
  <2>15. ASSUME NEW o \in Orders, CancelRead(r, o) PROVE TypeOK'
    <3>1. [Idle EXCEPT !.pc = "write", !.kind = "cancel", !.order = o,
                       !.snap = order[o]] \in Request
      BY RowTypes DEF TypeOK, Request, PCs, Kinds
    <3> QED
      BY <3>1, <2>15, <2>c DEF CancelRead, TypeOK, allButReq, rowsOnly
  <2>16. CASE CancelCommit(r)
    <3>1. \A x \in Row : [x EXCEPT !.status = "CANCELLED",
                                   !.cancelledFrom = req[r].snap.status] \in Row
      BY <2>b DEF Row, RowStatuses, Statuses, FinalStatuses
    <3>2. order' \in [Orders -> Row]
      BY <2>16, <3>1 DEF CancelCommit, TypeOK
    <3> QED
      BY <3>2, <2>16, <2>e DEF CancelCommit, TypeOK, rowsOnly
  <2>17. ASSUME NEW o \in Orders, NEW c \in Customers, EditRead(r, o, c) PROVE TypeOK'
    <3>1. [Idle EXCEPT !.pc = "write", !.kind = "edit", !.order = o,
                       !.customer = c] \in Request
      BY RowTypes DEF TypeOK, Request, PCs, Kinds
    <3> QED
      BY <3>1, <2>17, <2>c DEF EditRead, TypeOK, allButReq, rowsOnly
  <2>18. CASE EditCommit(r)
    <3>1. \A x \in Row : [x EXCEPT !.customer = req[r].customer] \in Row
      BY <2>b DEF Row
    <3>2. order' \in [Orders -> Row]
      BY <2>18, <3>1 DEF EditCommit, TypeOK
    <3> QED
      BY <3>2, <2>18, <2>e DEF EditCommit, TypeOK, rowsOnly
  <2>19. CASE Stop(r)
    BY <2>19, <2>e DEF Stop, TypeOK, allButReq, rowsOnly
  <2> QED
    BY <1>2, <2>1, <2>2, <2>3, <2>4, <2>5, <2>6, <2>7, <2>8, <2>9, <2>10, <2>11, <2>12,
       <2>13, <2>14, <2>15, <2>16, <2>17, <2>18, <2>19 DEF RequestStep
<1>3. ASSUME Environment PROVE TypeOK'
  <2>1. ASSUME NEW o \in Orders, CreateSyntheticOrder(o) PROVE TypeOK'
    <3>1. [NewRow(Reviewer) EXCEPT !.status = "CANCELLED", !.cancelledFrom = "PLACED"] \in Row
      BY RowTypes DEF Row, RowStatuses, Statuses, FinalStatuses, operationalStatuses
    <3> QED
      BY <2>1, <3>1, <1>1 DEF CreateSyntheticOrder, TypeOK, rowsOnly
  <2>2. ASSUME NEW o \in Orders, NEW d \in Drivers, ReceiptByDriver(o, d) PROVE TypeOK'
    <3> DEFINE stamped == buildOrderTransitionTimestampData(order[o], order[o],
                                                            "OUT_FOR_DELIVERY", clock)
    <3>1. stamped \in Row
      BY TimestampDataType DEF TypeOK
    <3> HIDE DEF stamped
    <3>2. [stamped EXCEPT !.status = "OUT_FOR_DELIVERY"] \in Row
      BY <3>1 DEF Row, RowStatuses, Statuses, operationalStatuses
    <3>3. order' \in [Orders -> Row]
      BY <2>2, <3>2, <1>1 DEF ReceiptByDriver, TypeOK, stamped
    <3> QED
      BY <2>2, <3>3 DEF ReceiptByDriver, TypeOK
  <2>3. ASSUME NEW o \in Orders, ReceiptByStaff(o) PROVE TypeOK'
    BY <2>3 DEF ReceiptByStaff, TypeOK
  <2>4. ASSUME NEW d \in Drivers, PresenceChange(d) PROVE TypeOK'
    BY <2>4 DEF PresenceChange, TypeOK
  <2>5. ASSUME NEW d \in Drivers, RevokeAccess(d) PROVE TypeOK'
    BY <2>5 DEF RevokeAccess, TypeOK
  <2>6. ASSUME NEW d \in Drivers, RestoreAccess(d) PROVE TypeOK'
    BY <2>6 DEF RestoreAccess, TypeOK
  <2>7. CASE updateAutoDispatchSettings
    BY <2>7 DEF updateAutoDispatchSettings, TypeOK
  <2>8. CASE Tick
    BY <2>8 DEF Tick, TypeOK
  <2> QED
    BY <1>3, <2>1, <2>2, <2>3, <2>4, <2>5, <2>6, <2>7, <2>8 DEF Environment
<1>4. CASE UNCHANGED vars
  BY <1>4 DEF TypeOK, vars
<1> QED
  BY <1>2, <1>3, <1>4 DEF Next

\* The tables, the settings and the handlers' local state keep their types in every
\* behaviour, for any sets of orders, drivers, users, customers and requests.
THEOREM TypeCorrect == Spec => []TypeOK
BY TypeInit, TypeNext, PTL DEF Spec

-----------------------------------------------------------------------------
(***************************************************************************)
(* Rows stay coherent although handlers write from stale snapshots. The    *)
(* strengthening says the same of every snapshot in flight, as of the time *)
(* the handler will write (its now) or, before that, of the clock.         *)
(***************************************************************************)

Coherent(row, now) ==
    /\ row.status = "ABSENT" => row.driver = NoDriver
    /\ IF row.status = "CANCELLED" THEN row.cancelledFrom \in operationalStatuses
                                   ELSE row.cancelledFrom = "ABSENT"
    /\ StatusTimes(row)
    /\ OrderedTimes(row, now)
    /\ AttributedRow(row)

SnapshotCoherent(q, now) ==
    /\ q.kind \in {"assign", "unassign", "action", "cancel"} => Coherent(q.snap, now)
    /\ q.kind \in {"assign", "unassign", "cancel"} => q.snap.status \in operationalStatuses
    /\ q.kind \in {"assign", "action"} => q.driver \in Drivers
    /\ q.kind = "assign" => q.user \in Users
    /\ q.kind \in {"assign", "action"} /\ q.pc = "write" =>
          q.now # 0 /\ q.now <= now /\ Coherent(q.snap, q.now)
    /\ q.kind = "action" /\ q.pc = "write" =>
          evaluateOrderStatusTransition("DRIVER_ACTION", q.snap.status, q.target, TRUE)

CoherenceInv ==
    /\ \A o \in Orders : Coherent(order[o], clock)
    /\ \A r \in Requests : SnapshotCoherent(req[r], clock)

\* A coherent row stays coherent while the clock of the server moves on.
LEMMA CoherentLater ==
    ASSUME NEW row \in Row, NEW s \in Nat, NEW t \in Nat, s <= t, Coherent(row, s)
    PROVE  Coherent(row, t)
BY DEF Coherent, OrderedTimes, Row

\* A row that was just inserted, also one cancelled in the same transaction for a
\* store reviewer, is coherent.
LEMMA CoherentNew ==
    ASSUME NEW c \in Customers \cup {Reviewer}, NEW t \in Nat
    PROVE  /\ Coherent(AbsentRow, t)
           /\ Coherent(NewRow(c), t)
           /\ Coherent([NewRow(c) EXCEPT !.status = "CANCELLED",
                                         !.cancelledFrom = "PLACED"], t)
BY DEF Coherent, AbsentRow, NewRow, StatusTimes, OrderedTimes, AttributedRow,
       operationalStatuses

\* autoDispatchCreatedOrderWithPickupPlan dispatches a coherent PLACED row into a
\* coherent DISPATCHED one.
LEMMA CoherentAuto ==
    ASSUME NEW row \in Row, NEW t \in Nat \ {0}, NEW d \in Drivers,
           Coherent(row, t), row.status = "PLACED"
    PROVE  Coherent([buildOrderTransitionTimestampData(row, row, "DISPATCHED", t) EXCEPT
                    !.status = "DISPATCHED", !.driver = d, !.assignedAt = t,
                    !.dispatchSource = "AUTO", !.dispatchedByUserId = NoUser], t)
<1> DEFINE w == [row EXCEPT !.status = "DISPATCHED", !.driver = d, !.assignedAt = t,
                            !.dispatchedAt = t,
                            !.dispatchSource = "AUTO", !.dispatchedByUserId = NoUser]
<1>1. [buildOrderTransitionTimestampData(row, row, "DISPATCHED", t) EXCEPT
                    !.status = "DISPATCHED", !.driver = d, !.assignedAt = t,
                    !.dispatchSource = "AUTO", !.dispatchedByUserId = NoUser] = w
  BY DEF buildOrderTransitionTimestampData, Coalesce, Coherent, StatusTimes, Row
<1>2. Coherent(w, t)
  BY LifecycleAssumption
     DEF Coherent, StatusTimes, OrderedTimes, AttributedRow, operationalStatuses, Row
<1> QED
  BY <1>1, <1>2

\* Unassigning from a snapshot of the same status leaves a coherent row: the trace
\* of the dispatch goes with the status.
LEMMA CoherentUnassigned ==
    ASSUME NEW row \in Row, NEW snap \in Row, NEW t \in Nat,
           Coherent(row, t), row.status = snap.status, row.status \in operationalStatuses
    PROVE  Coherent(UnassignedRow(row, snap), t)
BY DEF UnassignedRow, Coherent, StatusTimes, OrderedTimes, AttributedRow,
       operationalStatuses, Row

\* updateOrderStatusController cancels an unfinished coherent row coherently.
LEMMA CoherentCancelled ==
    ASSUME NEW row \in Row, NEW t \in Nat,
           Coherent(row, t), row.status \in operationalStatuses
    PROVE  Coherent([row EXCEPT !.status = "CANCELLED", !.cancelledFrom = row.status], t)
BY DEF Coherent, StatusTimes, OrderedTimes, AttributedRow, operationalStatuses, Row

\* updateOrderDetailsController changes the customer and nothing a row's coherence
\* looks at.
LEMMA CoherentEdited ==
    ASSUME NEW row \in Row, NEW t \in Nat, NEW c \in Customers \cup {NoCustomer},
           Coherent(row, t)
    PROVE  Coherent([row EXCEPT !.customer = c], t)
BY DEF Coherent, StatusTimes, OrderedTimes, AttributedRow, operationalStatuses, Row

\* A manual assignment over a row that still has the status of the snapshot.
LEMMA CoherentAssigned ==
    ASSUME NEW row \in Row, NEW q \in Request, NEW t \in Nat,
           Coherent(row, t), Coherent(q.snap, q.now),
           row.status = q.snap.status, row.status \in operationalStatuses,
           q.now # 0, q.now <= t, q.driver \in Drivers, q.user \in Users
    PROVE  Coherent(AssignedRow(row, q), t)
<1> DEFINE at == IF q.snap.driver # q.driver THEN q.now
                 ELSE Coalesce(q.snap.assignedAt, q.now)
<1>1. q.snap \in Row /\ q.now \in Nat
  BY DEF Request
<1>2. CASE row.status = "PLACED"
  <2>1. AssignedRow(row, q) =
           [row EXCEPT !.status = "DISPATCHED", !.dispatchedAt = q.now,
                       !.dispatchSource = "MANUAL", !.dispatchedByUserId = q.user,
                       !.driver = q.driver, !.assignedAt = at]
    BY <1>1, <1>2, ZenonT(40) DEF AssignedRow, buildOrderTransitionTimestampData,
       getFirstDispatchAttribution, Coalesce, Coherent, StatusTimes, Row
  <2> HIDE DEF at
  <2> QED
    BY <1>1, <1>2, <2>1, LifecycleAssumption
       DEF Coherent, StatusTimes, OrderedTimes, AttributedRow, operationalStatuses, Row
<1>3. CASE row.status = "DISPATCHED"
  <2>1. AssignedRow(row, q) =
           [row EXCEPT !.dispatchedAt = q.snap.dispatchedAt,
                       !.driver = q.driver, !.assignedAt = at]
    BY <1>1, <1>3, ZenonT(40) DEF AssignedRow, buildOrderTransitionTimestampData,
       getFirstDispatchAttribution, Coalesce, Coherent, StatusTimes, Row
  <2> HIDE DEF at
  <2> QED
    BY <1>1, <1>3, <2>1
       DEF Coherent, StatusTimes, OrderedTimes, AttributedRow, operationalStatuses, Row
<1>4. CASE row.status \in {"ACCEPTED", "OUT_FOR_DELIVERY"}
  <2>1. AssignedRow(row, q) = [row EXCEPT !.driver = q.driver, !.assignedAt = at]
    BY <1>4 DEF AssignedRow, Row
  <2> HIDE DEF at
  <2> QED
    BY <1>4, <2>1
       DEF Coherent, StatusTimes, OrderedTimes, AttributedRow, operationalStatuses, Row
<1> QED
  BY <1>2, <1>3, <1>4 DEF operationalStatuses

\* A driver's step, or the pickup of a receipt, from a snapshot of the same status.
LEMMA CoherentDriverStep ==
    ASSUME NEW row \in Row, NEW snap \in Row, NEW target \in RowStatuses,
           NEW now \in Nat, NEW t \in Nat, NEW actor \in {"DRIVER_ACTION", "RECEIPT"},
           Coherent(row, t), Coherent(snap, now), row.status = snap.status,
           row.driver # NoDriver, now # 0, now <= t,
           evaluateOrderStatusTransition(actor, snap.status, target, TRUE)
    PROVE  Coherent([getFirstDispatchAttribution(
                        buildOrderTransitionTimestampData(row, snap, target, now),
                        snap, "DRIVER", NoUser) EXCEPT !.status = target], t)
<1> DEFINE new == [getFirstDispatchAttribution(
                        buildOrderTransitionTimestampData(row, snap, target, now),
                        snap, "DRIVER", NoUser) EXCEPT !.status = target]
<1>1. snap.status # "PLACED"
  BY DEF Coherent, StatusTimes
<1>2. snap.dispatchedAt # 0 /\ snap.dispatchedAt \in Nat
  BY <1>1 DEF Coherent, StatusTimes, evaluateOrderStatusTransition, operationalStatuses,
              FinalStatuses, Row
<1>3. CASE snap.status = "DISPATCHED" /\ target = "ACCEPTED"
  <2>1. new = [row EXCEPT !.status = "ACCEPTED", !.dispatchedAt = snap.dispatchedAt,
                          !.acceptedAt = now]
    BY <1>2, <1>3 DEF buildOrderTransitionTimestampData,
       getFirstDispatchAttribution, Coalesce, Coherent, StatusTimes, Row
  <2> HIDE DEF new
  <2>2. Coherent(new, t)
    BY <1>2, <1>3, <2>1
       DEF Coherent, StatusTimes, OrderedTimes, AttributedRow, operationalStatuses, Row
  <2> QED
    BY <2>2 DEF new
<1>4. CASE snap.status = "ACCEPTED" /\ target = "OUT_FOR_DELIVERY"
  <2>1. new = [row EXCEPT !.status = "OUT_FOR_DELIVERY", !.dispatchedAt = snap.dispatchedAt,
                          !.acceptedAt = snap.acceptedAt, !.outForDeliveryAt = now]
    BY <1>2, <1>4 DEF buildOrderTransitionTimestampData,
       getFirstDispatchAttribution, Coalesce, Coherent, StatusTimes, Row
  <2> HIDE DEF new
  <2>2. Coherent(new, t)
    BY <1>2, <1>4, <2>1
       DEF Coherent, StatusTimes, OrderedTimes, AttributedRow, operationalStatuses, Row
  <2> QED
    BY <2>2 DEF new
<1>5. CASE snap.status = "OUT_FOR_DELIVERY" /\ target = "DELIVERED"
  <2>1. new = [row EXCEPT !.status = "DELIVERED", !.dispatchedAt = snap.dispatchedAt,
                          !.acceptedAt = snap.acceptedAt,
                          !.outForDeliveryAt = snap.outForDeliveryAt, !.deliveredAt = now]
    BY <1>2, <1>5 DEF buildOrderTransitionTimestampData,
       getFirstDispatchAttribution, Coalesce, Coherent, StatusTimes, Row
  <2> HIDE DEF new
  <2>2. Coherent(new, t)
    BY <1>2, <1>5, <2>1
       DEF Coherent, StatusTimes, OrderedTimes, AttributedRow, operationalStatuses, Row
  <2> QED
    BY <2>2 DEF new
<1> QED
  BY <1>1, <1>3, <1>4, <1>5 DEF evaluateOrderStatusTransition, operationalStatuses

\* The coherence invariant holds of the empty tables.
LEMMA CoherenceInit == Init => CoherenceInv
<1> SUFFICES ASSUME Init PROVE CoherenceInv
  OBVIOUS
<1>1. Coherent(AbsentRow, 1)
  BY DEF Coherent, AbsentRow, StatusTimes, OrderedTimes, AttributedRow, operationalStatuses
<1> QED
  BY <1>1 DEF Init, CoherenceInv, SnapshotCoherent, Idle

\* Every action preserves the coherence of the rows and of the snapshots that
\* handlers in flight hold: what is written combines a row and a snapshot that agree
\* in status, because every update compares the status.
LEMMA CoherenceNext == TypeOK /\ CoherenceInv /\ [Next]_vars => CoherenceInv'
<1> SUFFICES ASSUME TypeOK, CoherenceInv, [Next]_vars PROVE CoherenceInv'
  OBVIOUS
<1> USE LifecycleAssumption
<1>a. /\ \A o \in Orders : order[o] \in Row /\ Coherent(order[o], clock)
      /\ \A r \in Requests : req[r] \in Request /\ SnapshotCoherent(req[r], clock)
      /\ clock \in Nat \ {0}
  BY DEF TypeOK, CoherenceInv
\* One row is replaced, and the rest of the database and the clock stay.
<1>b. ASSUME NEW o, NEW x, order' = [order EXCEPT ![o] = x], clock' = clock,
             o \in Orders => Coherent(x, clock)
      PROVE  \A p \in Orders : Coherent(order'[p], clock')
  BY <1>a, <1>b DEF TypeOK
\* One request is replaced.
<1>c. ASSUME NEW r \in Requests, NEW q, req' = [req EXCEPT ![r] = q], clock' = clock,
             SnapshotCoherent(q, clock)
      PROVE  \A s \in Requests : SnapshotCoherent(req'[s], clock')
  BY <1>a, <1>c DEF TypeOK
<1>d. SnapshotCoherent(Idle, clock)
  BY DEF SnapshotCoherent, Idle
<1>e. ASSUME NEW r \in Requests, NEW pc \in PCs \ {"write"}
      PROVE  SnapshotCoherent([req[r] EXCEPT !.pc = pc], clock)
  BY <1>a DEF SnapshotCoherent, Request
<1>2. ASSUME NEW r \in Requests, RequestStep(r) PROVE CoherenceInv'
  <2> DEFINE q == req[r]
  <2>a. q \in Request /\ SnapshotCoherent(q, clock)
    BY <1>a
  <2>b. q.snap \in Row /\ q.now \in Nat /\ q.target \in RowStatuses
        /\ q.customer \in Customers \cup {NoCustomer}
    BY <2>a DEF Request
  <2>r. ASSUME Respond(r), clock' = clock
        PROVE  \A s \in Requests : SnapshotCoherent(req'[s], clock')
    BY <2>r, <1>c, <1>d DEF Respond
  <2>p. ASSUME NEW pc \in PCs \ {"write"}, req' = [req EXCEPT ![r].pc = pc], clock' = clock
        PROVE  \A s \in Requests : SnapshotCoherent(req'[s], clock')
    BY <2>p, <1>a, <1>e DEF TypeOK
  \* The policy has agreed: the handler fixes its now.
  <2>w. ASSUME q.kind = "assign" \/
               /\ q.kind = "action"
               /\ evaluateOrderStatusTransition("DRIVER_ACTION", q.snap.status, q.target, TRUE)
        PROVE  SnapshotCoherent([q EXCEPT !.pc = "write", !.now = clock], clock)
    <3> DEFINE n == [q EXCEPT !.pc = "write", !.now = clock]
    <3>1. /\ n.pc = "write" /\ n.now = clock /\ n.kind = q.kind /\ n.snap = q.snap
          /\ n.driver = q.driver /\ n.user = q.user /\ n.target = q.target
      BY <2>a DEF Request
    <3>2. clock # 0 /\ clock <= clock
      BY <1>a
    <3> HIDE DEF n
    <3>3. SnapshotCoherent(n, clock)
      BY <3>1, <3>2, <2>a, <2>w DEF SnapshotCoherent
    <3> QED
      BY <3>3 DEF n
  <2>1. ASSUME NEW o \in Orders, NEW c \in Customers, CreateOrder(r, o, c)
        PROVE  CoherenceInv'
    <3>1. Coherent(NewRow(c), clock)
      BY <1>a, CoherentNew
    <3>2. SnapshotCoherent([Idle EXCEPT !.pc = "plan", !.kind = "create", !.order = o], clock)
      BY DEF SnapshotCoherent, Idle
    <3> QED
      BY <2>1, <3>1, <3>2, <1>b, <1>c DEF CreateOrder, CoherenceInv, rowsOnly
  <2>2. CASE AutoDispatchPlan(r)
    BY <2>2, <1>a, <2>r, <2>p DEF AutoDispatchPlan, CoherenceInv, allButReq, rowsOnly, PCs
  <2>3. CASE AutoDispatchAllocate(r)
    <3>1. PICK d \in Drivers :
            /\ order' = [order EXCEPT ![q.order] =
                 [buildOrderTransitionTimestampData(order[q.order], order[q.order],
                                                    "DISPATCHED", clock)
                  EXCEPT !.status = "DISPATCHED", !.driver = d, !.assignedAt = clock,
                    !.dispatchSource = "AUTO", !.dispatchedByUserId = NoUser]]
            /\ req' = [req EXCEPT ![r].pc = "event", ![r].driver = d]
      BY <2>3 DEF AutoDispatchAllocate
    <3>2. order[q.order].status = "PLACED" /\ clock' = clock
      BY <2>3 DEF AutoDispatchAllocate, evaluateOrderStatusTransition, rowsOnly
    <3>3. \A p \in Orders : Coherent(order'[p], clock')
      BY <3>1, <3>2, <1>a, <1>b, CoherentAuto
    <3>4. SnapshotCoherent([q EXCEPT !.pc = "event", !.driver = d], clock)
      BY <2>a DEF SnapshotCoherent, Request
    <3>5. req' = [req EXCEPT ![r] = [q EXCEPT !.pc = "event", !.driver = d]]
      BY <3>1, <2>a DEF TypeOK, Request
    <3> QED
      BY <3>2, <3>3, <3>4, <3>5, <1>c DEF CoherenceInv
  <2>4. CASE AutoDispatchHeld(r)
    BY <2>4, <1>a, <2>r DEF AutoDispatchHeld, CoherenceInv, allButReq, rowsOnly
  <2>5. ASSUME NEW o \in Orders, NEW d \in Drivers, NEW u \in Users, NEW p \in BOOLEAN,
               AssignRead(r, o, d, u, p)
        PROVE  CoherenceInv'
    <3>1. order[o].status \in operationalStatuses
      BY <2>5, <1>a DEF AssignRead, Exists, Row, RowStatuses, Statuses
    <3>2. SnapshotCoherent([Idle EXCEPT !.pc = "policy", !.kind = "assign", !.order = o,
              !.driver = d, !.user = u, !.priority = p, !.snap = order[o]], clock)
      BY <3>1, <1>a DEF SnapshotCoherent, Idle
    <3> QED
      BY <3>2, <2>5, <1>a, <1>c DEF AssignRead, CoherenceInv, allButReq, rowsOnly
  <2>6. CASE AssignPolicy(r)
    <3>1. SnapshotCoherent([q EXCEPT !.pc = "write", !.now = clock], clock)
      BY <2>6, <2>w DEF AssignPolicy
    <3>2. req' = [req EXCEPT ![r] = [q EXCEPT !.pc = "write", !.now = clock]]
      BY <2>6, <2>a DEF AssignPolicy, TypeOK, Request
    <3> QED
      BY <3>1, <3>2, <2>6, <1>a, <1>c DEF AssignPolicy, CoherenceInv, allButReq, rowsOnly
  <2>7. CASE AssignCommit(r)
    <3>1. q.order \in Orders => Coherent(AssignedRow(order[q.order], q), clock)
      BY <2>7, <2>a, <2>b, <1>a, CoherentAssigned DEF AssignCommit, SnapshotCoherent
    <3>2. \A p \in Orders : Coherent(order'[p], clock')
      BY <2>7, <3>1, <1>b DEF AssignCommit, rowsOnly
    <3> QED
      BY <2>7, <3>2, <2>r, <2>p DEF AssignCommit, CoherenceInv, rowsOnly, PCs
  <2>8. ASSUME NEW o \in Orders, NEW u \in Users, UnassignRead(r, o, u)
        PROVE  CoherenceInv'
    <3>1. order[o].status \in operationalStatuses
      BY <2>8, <1>a DEF UnassignRead, Exists, Row, RowStatuses, Statuses
    <3>2. SnapshotCoherent([Idle EXCEPT !.pc = "write", !.kind = "unassign", !.order = o,
                                        !.user = u, !.snap = order[o]], clock)
      BY <3>1, <1>a DEF SnapshotCoherent, Idle
    <3> QED
      BY <3>2, <2>8, <1>a, <1>c DEF UnassignRead, CoherenceInv, allButReq, rowsOnly
  <2>9. CASE UnassignCommit(r)
    <3>1. q.order \in Orders => Coherent(UnassignedRow(order[q.order], q.snap), clock)
      BY <2>9, <2>a, <2>b, <1>a, CoherentUnassigned DEF UnassignCommit, SnapshotCoherent
    <3>2. \A p \in Orders : Coherent(order'[p], clock')
      BY <2>9, <3>1, <1>b DEF UnassignCommit, rowsOnly
    <3> QED
      BY <2>9, <3>2, <2>r, <2>p DEF UnassignCommit, CoherenceInv, rowsOnly, PCs
  <2>10. CASE RecordDispatchEvent(r)
    BY <2>10, <1>a, <2>r DEF RecordDispatchEvent, CoherenceInv
  <2>11. ASSUME NEW o \in Orders, NEW d \in Drivers,
                NEW target \in {"ACCEPTED", "OUT_FOR_DELIVERY", "DELIVERED"},
                DriverActionRead(r, o, d, target)
         PROVE  CoherenceInv'
    <3>1. SnapshotCoherent([Idle EXCEPT !.pc = "policy", !.kind = "action", !.order = o,
              !.driver = d, !.target = target, !.snap = order[o]], clock)
      BY <1>a DEF SnapshotCoherent, Idle
    <3> QED
      BY <3>1, <2>11, <1>a, <1>c DEF DriverActionRead, CoherenceInv, allButReq, rowsOnly
  <2>12. CASE DriverActionPolicy(r)
    <3>1. evaluateOrderStatusTransition("DRIVER_ACTION", q.snap.status, q.target, TRUE)
      BY <2>12 DEF DriverActionPolicy, evaluateOrderStatusTransition
    <3>2. SnapshotCoherent([q EXCEPT !.pc = "write", !.now = clock], clock)
      BY <2>12, <3>1, <2>w DEF DriverActionPolicy
    <3>3. req' = [req EXCEPT ![r] = [q EXCEPT !.pc = "write", !.now = clock]]
      BY <2>12, <2>a DEF DriverActionPolicy, TypeOK, Request
    <3> QED
      BY <3>2, <3>3, <2>12, <1>a, <1>c DEF DriverActionPolicy, CoherenceInv, allButReq, rowsOnly
  <2>13. CASE DriverActionCommit(r)
    <3> DEFINE new == [getFirstDispatchAttribution(
                          buildOrderTransitionTimestampData(order[q.order], q.snap,
                                                            q.target, q.now),
                          q.snap, "DRIVER", NoUser) EXCEPT !.status = q.target]
    <3>1. /\ q.pc = "write" /\ q.kind = "action"
          /\ order[q.order].driver = q.driver /\ order[q.order].status = q.snap.status
      BY <2>13 DEF DriverActionCommit
    <3>2. /\ q.driver # NoDriver /\ q.now # 0 /\ q.now <= clock /\ Coherent(q.snap, q.now)
          /\ evaluateOrderStatusTransition("DRIVER_ACTION", q.snap.status, q.target, TRUE)
      BY <3>1, <2>a DEF SnapshotCoherent
    <3>3. q.order \in Orders => Coherent(new, clock)
      BY <3>1, <3>2, <2>b, <1>a, CoherentDriverStep
    <3>4. order' = [order EXCEPT ![q.order] = new] /\ clock' = clock
      BY <2>13 DEF DriverActionCommit, rowsOnly
    <3>5. \A p \in Orders : Coherent(order'[p], clock')
      <4> HIDE DEF new
      <4> QED
        BY <3>3, <3>4, <1>b
    <3> QED
      BY <2>13, <3>5, <2>r, <2>p DEF DriverActionCommit, CoherenceInv, rowsOnly, PCs
  <2>14. CASE RecordLoyalty(r)
    BY <2>14, <1>a, <2>r DEF RecordLoyalty, CoherenceInv
  <2>15. ASSUME NEW o \in Orders, CancelRead(r, o) PROVE CoherenceInv'
    <3>1. order[o].status \in operationalStatuses
      BY <2>15 DEF CancelRead, evaluateOrderStatusTransition
    <3>2. SnapshotCoherent([Idle EXCEPT !.pc = "write", !.kind = "cancel", !.order = o,
                                        !.snap = order[o]], clock)
      BY <3>1, <1>a DEF SnapshotCoherent, Idle
    <3> QED
      BY <3>2, <2>15, <1>a, <1>c DEF CancelRead, CoherenceInv, allButReq, rowsOnly
  <2>16. CASE CancelCommit(r)
    <3>1. /\ q.snap.status \in operationalStatuses
          /\ order[q.order].status = q.snap.status
          /\ clock' = clock
      BY <2>16, <2>a DEF CancelCommit, SnapshotCoherent, rowsOnly
    <3>2. q.order \in Orders =>
            Coherent([order[q.order] EXCEPT !.status = "CANCELLED",
                                            !.cancelledFrom = q.snap.status], clock)
      BY <3>1, <1>a, CoherentCancelled
    <3>3. \A p \in Orders : order'[p] = IF p = q.order
            THEN [order[p] EXCEPT !.status = "CANCELLED", !.cancelledFrom = q.snap.status]
            ELSE order[p]
      BY <2>16 DEF CancelCommit, TypeOK
    <3> QED
      BY <2>16, <3>1, <3>2, <3>3, <1>a, <2>r, ZenonT(40) DEF CancelCommit, CoherenceInv
  <2>17. ASSUME NEW o \in Orders, NEW c \in Customers, EditRead(r, o, c) PROVE CoherenceInv'
    <3>1. SnapshotCoherent([Idle EXCEPT !.pc = "write", !.kind = "edit", !.order = o,
                                        !.customer = c], clock)
      BY DEF SnapshotCoherent, Idle
    <3> QED
      BY <3>1, <2>17, <1>a, <1>c DEF EditRead, CoherenceInv, allButReq, rowsOnly
  <2>18. CASE EditCommit(r)
    <3>1. \A p \in Orders : order'[p] = IF p = q.order
            THEN [order[p] EXCEPT !.customer = q.customer] ELSE order[p]
      BY <2>18 DEF EditCommit, TypeOK
    <3>2. \A p \in Orders : Coherent(order'[p], clock)
      <4> SUFFICES ASSUME NEW p \in Orders PROVE Coherent(order'[p], clock)
        OBVIOUS
      <4>1. Coherent([order[p] EXCEPT !.customer = q.customer], clock)
        BY <1>a, <2>b, CoherentEdited
      <4> QED
        BY <4>1, <3>1, <1>a
    <3> QED
      BY <2>18, <3>2, <2>r DEF EditCommit, CoherenceInv, rowsOnly
  <2>19. CASE Stop(r)
    BY <2>19, <1>a, <2>r DEF Stop, CoherenceInv, allButReq, rowsOnly
  <2> QED
    BY <1>2, <2>1, <2>2, <2>3, <2>4, <2>5, <2>6, <2>7, <2>8, <2>9, <2>10, <2>11, <2>12,
       <2>13, <2>14, <2>15, <2>16, <2>17, <2>18, <2>19 DEF RequestStep
<1>3. ASSUME Environment PROVE CoherenceInv'
  <2>1. ASSUME NEW o \in Orders, CreateSyntheticOrder(o) PROVE CoherenceInv'
    <3>1. Coherent([NewRow(Reviewer) EXCEPT !.status = "CANCELLED",
                                            !.cancelledFrom = "PLACED"], clock)
      BY <1>a, CoherentNew
    <3> QED
      BY <2>1, <3>1, <1>a, <1>b DEF CreateSyntheticOrder, CoherenceInv, rowsOnly
  <2>2. ASSUME NEW o \in Orders, NEW d \in Drivers, ReceiptByDriver(o, d)
        PROVE  CoherenceInv'
    <3>1. CASE evaluateOrderStatusTransition("RECEIPT", order[o].status,
                                             "OUT_FOR_DELIVERY", TRUE)
      <4> DEFINE stamped == buildOrderTransitionTimestampData(order[o], order[o],
                                                              "OUT_FOR_DELIVERY", clock)
      <4>1. order[o].status = "ACCEPTED" /\ order[o].driver # NoDriver
        BY <2>2, <3>1 DEF ReceiptByDriver, evaluateOrderStatusTransition
      <4>2. getFirstDispatchAttribution(stamped, order[o], "DRIVER", NoUser) = stamped
        BY <4>1, <1>a DEF getFirstDispatchAttribution, Coherent, StatusTimes
      <4>3. "OUT_FOR_DELIVERY" \in RowStatuses
        BY DEF RowStatuses, Statuses, operationalStatuses
      <4>4. Coherent([getFirstDispatchAttribution(stamped, order[o], "DRIVER", NoUser)
                      EXCEPT !.status = "OUT_FOR_DELIVERY"], clock)
        <5>1. clock \in Nat /\ clock # 0 /\ clock <= clock
          BY <1>a
        <5>2. order[o] \in Row /\ Coherent(order[o], clock)
          BY <1>a
        <5> QED
          BY <3>1, <4>1, <4>3, <5>1, <5>2, CoherentDriverStep
      <4>5. order' = [order EXCEPT ![o] = [stamped EXCEPT !.status = "OUT_FOR_DELIVERY"]]
        BY <2>2, <3>1 DEF ReceiptByDriver
      <4> HIDE DEF stamped
      <4> QED
        BY <2>2, <4>2, <4>4, <4>5, <1>a, <1>b DEF ReceiptByDriver, CoherenceInv
    <3>2. CASE ~evaluateOrderStatusTransition("RECEIPT", order[o].status,
                                              "OUT_FOR_DELIVERY", TRUE)
      BY <2>2, <3>2, <1>a DEF ReceiptByDriver, CoherenceInv
    <3> QED
      BY <3>1, <3>2
  <2>3. ASSUME NEW o \in Orders, ReceiptByStaff(o) PROVE CoherenceInv'
    BY <2>3, <1>a DEF ReceiptByStaff, CoherenceInv
  <2>4. ASSUME NEW d \in Drivers, PresenceChange(d) PROVE CoherenceInv'
    BY <2>4, <1>a DEF PresenceChange, CoherenceInv
  <2>5. ASSUME NEW d \in Drivers, RevokeAccess(d) PROVE CoherenceInv'
    BY <2>5, <1>a DEF RevokeAccess, CoherenceInv
  <2>6. ASSUME NEW d \in Drivers, RestoreAccess(d) PROVE CoherenceInv'
    BY <2>6, <1>a DEF RestoreAccess, CoherenceInv
  <2>7. CASE updateAutoDispatchSettings
    BY <2>7, <1>a DEF updateAutoDispatchSettings, CoherenceInv
  <2>8. CASE Tick
    <3>1. clock' \in Nat /\ clock <= clock' /\ order' = order /\ req' = req
      BY <2>8, <1>a DEF Tick
    <3>2. \A o \in Orders : Coherent(order[o], clock')
      BY <3>1, <1>a, CoherentLater
    <3>3. \A r \in Requests : SnapshotCoherent(req[r], clock')
      <4> SUFFICES ASSUME NEW r \in Requests PROVE SnapshotCoherent(req[r], clock')
        OBVIOUS
      <4>1. req[r].snap \in Row /\ req[r].now \in Nat
        BY <1>a DEF Request
      <4>2. Coherent(req[r].snap, clock) => Coherent(req[r].snap, clock')
        BY <3>1, <4>1, <1>a, CoherentLater
      <4>3. req[r].now <= clock => req[r].now <= clock'
        BY <4>1, <3>1, <1>a
      <4>4. SnapshotCoherent(req[r], clock)
        BY <1>a
      <4> QED
        BY <4>2, <4>3, <4>4 DEF SnapshotCoherent
    <3> QED
      BY <3>1, <3>2, <3>3 DEF CoherenceInv
  <2> QED
    BY <1>3, <2>1, <2>2, <2>3, <2>4, <2>5, <2>6, <2>7, <2>8 DEF Environment
<1>4. CASE UNCHANGED vars
  BY <1>4, <1>a DEF CoherenceInv, vars
<1> QED
  BY <1>2, <1>3, <1>4 DEF Next

\* Rows never contradict themselves: status, timestamps and dispatch attribution
\* agree for any number of orders, drivers and requests in flight, although
\* handlers write from stale snapshots under compare-and-set.
THEOREM RowsCoherent == Spec => [](TimestampsMatchStatus /\ DispatchAttribution)
<1>1. CoherenceInv => TimestampsMatchStatus /\ DispatchAttribution
  BY DEF CoherenceInv, Coherent, TimestampsMatchStatus, DispatchAttribution
<1> QED
  BY <1>1, TypeCorrect, CoherenceInit, CoherenceNext, PTL DEF Spec

\* The stages of an order are stamped in order and never in the future, although
\* a handler writes the time it took before it waited for the database.
THEOREM StagesInOrder == Spec => []TimestampsInOrder
<1>1. CoherenceInv => TimestampsInOrder
  BY DEF CoherenceInv, Coherent, TimestampsInOrder
<1> QED
  BY <1>1, TypeCorrect, CoherenceInit, CoherenceNext, PTL DEF Spec

-----------------------------------------------------------------------------
(***************************************************************************)
(* OrderLifecycle implements OrderStatusSpec, and the safety that the      *)
(* status matrix gives is inherited from it. The only fact about requests  *)
(* that the mapping needs beyond coherence is that the receipt a driver    *)
(* action has seen is still there when it writes.                          *)
(***************************************************************************)

RequestInv ==
    \A r \in Requests :
        /\ req[r].pc # "idle" => req[r].order \in Orders
        /\ req[r].kind = "action" /\ req[r].pc = "write" =>
              evaluateOrderStatusTransition("DRIVER_ACTION", req[r].snap.status,
                                            req[r].target, receipt[req[r].order])

\* No handler is in flight initially.
LEMMA RequestInit == Init => RequestInv
<1> SUFFICES ASSUME Init, NEW r \in Requests PROVE req[r].pc = "idle"
  BY Zenon DEF RequestInv
<1> QED
  BY DEF Init, Idle

\* A receipt is never taken back.
LEMMA ReceiptsStay ==
    ASSUME TypeOK, [Next]_vars, NEW o \in Orders, receipt[o]
    PROVE  receipt'[o]
<1>1. ASSUME NEW r \in Requests, RequestStep(r) PROVE receipt' = receipt
  BY <1>1 DEF RequestStep, CreateOrder, AutoDispatchPlan, AutoDispatchAllocate,
     AutoDispatchHeld, AssignRead, AssignPolicy, AssignCommit, UnassignRead,
     UnassignCommit, RecordDispatchEvent, DriverActionRead, DriverActionPolicy,
     DriverActionCommit, RecordLoyalty, CancelRead, CancelCommit, EditRead,
     EditCommit, Stop, rowsOnly, allButReq
<1>2. ASSUME Environment PROVE receipt'[o]
  BY <1>2 DEF Environment, CreateSyntheticOrder, ReceiptByDriver, ReceiptByStaff,
     PresenceChange, RevokeAccess, RestoreAccess, updateAutoDispatchSettings, Tick,
     rowsOnly, TypeOK
<1> QED
  BY <1>1, <1>2 DEF Next, vars

\* The receipt that a driver action saw when its policy was consulted is still there
\* when it writes, and every handler in flight is about an order of the table.
LEMMA RequestNext == TypeOK /\ RequestInv /\ [Next]_vars => RequestInv'
<1> SUFFICES ASSUME TypeOK, RequestInv, [Next]_vars, NEW s \in Requests
             PROVE  /\ req'[s].pc # "idle" => req'[s].order \in Orders
                    /\ req'[s].kind = "action" /\ req'[s].pc = "write" =>
                          evaluateOrderStatusTransition("DRIVER_ACTION", req'[s].snap.status,
                                                req'[s].target, receipt'[req'[s].order])
  BY Zenon DEF RequestInv
<1> DEFINE Kept == /\ req'[s].pc # "idle" => req'[s].order \in Orders
                   /\ req'[s].kind = "action" /\ req'[s].pc = "write" =>
                          evaluateOrderStatusTransition("DRIVER_ACTION", req'[s].snap.status,
                                                req'[s].target, receipt'[req'[s].order])
<1>1. ASSUME req'[s] = req[s] PROVE Kept
  <2>1. CASE req[s].kind = "action" /\ req[s].pc = "write"
    <3>1. /\ req[s].order \in Orders
          /\ evaluateOrderStatusTransition("DRIVER_ACTION", req[s].snap.status,
                                           req[s].target, receipt[req[s].order])
      BY <2>1 DEF RequestInv
    <3>2. receipt[req[s].order] => receipt'[req[s].order]
      BY <3>1, ReceiptsStay
    <3> QED
      BY <1>1, <3>1, <3>2 DEF evaluateOrderStatusTransition
  <2>2. CASE ~(req[s].kind = "action" /\ req[s].pc = "write")
    BY <1>1, <2>2 DEF RequestInv
  <2> QED
    BY <2>1, <2>2
<1>2. req[s] \in Request
  BY DEF TypeOK
<1>3. ASSUME NEW r \in Requests, RequestStep(r) PROVE Kept
  <2>1. CASE r # s
    <3>1. req'[s] = req[s]
      BY <1>3, <2>1 DEF RequestStep, CreateOrder, AutoDispatchPlan, AutoDispatchAllocate,
         AutoDispatchHeld, AssignRead, AssignPolicy, AssignCommit, UnassignRead,
         UnassignCommit, RecordDispatchEvent, DriverActionRead, DriverActionPolicy,
         DriverActionCommit, RecordLoyalty, CancelRead, CancelCommit, EditRead,
         EditCommit, Stop, Respond, TypeOK
    <3> QED
      BY <3>1, <1>1
  <2>2. CASE r = s
    <3>1. ASSUME Respond(s) PROVE Kept
      BY <3>1 DEF Respond, TypeOK, Idle
    <3>2. ASSUME NEW pc \in PCs \ {"idle", "write"}, req[s].pc # "idle",
                 req'[s] = [req[s] EXCEPT !.pc = pc]
          PROVE  Kept
      BY <3>2, <1>2 DEF RequestInv, Request
    <3>3. ASSUME NEW o \in Orders, NEW c \in Customers, CreateOrder(s, o, c) PROVE Kept
      BY <3>3 DEF CreateOrder, TypeOK, Idle
    <3>4. CASE AutoDispatchPlan(s)
      <4>1. Respond(s) \/ req'[s] = [req[s] EXCEPT !.pc = "allocate"]
        BY <3>4 DEF AutoDispatchPlan, TypeOK
      <4> QED
        BY <3>4, <4>1, <3>1, <3>2 DEF AutoDispatchPlan, PCs
    <3>5. CASE AutoDispatchAllocate(s)
      <4>1. PICK d \in Drivers : req'[s] = [req[s] EXCEPT !.pc = "event", !.driver = d]
        BY <3>5 DEF AutoDispatchAllocate, TypeOK
      <4> QED
        BY <3>5, <4>1, <1>2 DEF AutoDispatchAllocate, RequestInv, Request
    <3>6. CASE AutoDispatchHeld(s)
      BY <3>6, <3>1 DEF AutoDispatchHeld
    <3>7. ASSUME NEW o \in Orders, NEW d \in Drivers, NEW u \in Users, NEW p \in BOOLEAN,
                 AssignRead(s, o, d, u, p)
          PROVE  Kept
      BY <3>7 DEF AssignRead, TypeOK, Idle
    <3>8. CASE AssignPolicy(s)
      <4>1. req'[s] = [req[s] EXCEPT !.pc = "write", !.now = clock]
        BY <3>8 DEF AssignPolicy, TypeOK
      <4>2. req[s].order \in Orders /\ req[s].kind = "assign"
        BY <3>8 DEF AssignPolicy, RequestInv
      <4>3. req'[s].kind = "assign" /\ req'[s].order \in Orders
        BY <4>1, <4>2, <1>2 DEF Request
      <4> QED
        BY <4>3
    <3>9. CASE AssignCommit(s)
      <4>1. Respond(s) \/ req'[s] = [req[s] EXCEPT !.pc = "event"]
        BY <3>9 DEF AssignCommit, TypeOK
      <4> QED
        BY <3>9, <4>1, <3>1, <3>2 DEF AssignCommit, PCs
    <3>10. ASSUME NEW o \in Orders, NEW u \in Users, UnassignRead(s, o, u) PROVE Kept
      BY <3>10 DEF UnassignRead, TypeOK, Idle
    <3>11. CASE UnassignCommit(s)
      <4>1. Respond(s) \/ req'[s] = [req[s] EXCEPT !.pc = "event"]
        BY <3>11 DEF UnassignCommit, TypeOK
      <4> QED
        BY <3>11, <4>1, <3>1, <3>2 DEF UnassignCommit, PCs
    <3>12. ASSUME NEW o \in Orders, NEW d \in Drivers,
                  NEW target \in {"ACCEPTED", "OUT_FOR_DELIVERY", "DELIVERED"},
                  DriverActionRead(s, o, d, target)
           PROVE  Kept
      BY <3>12 DEF DriverActionRead, TypeOK, Idle
    <3>13. CASE DriverActionPolicy(s)
      <4>1. req'[s] = [req[s] EXCEPT !.pc = "write", !.now = clock]
        BY <3>13 DEF DriverActionPolicy, TypeOK
      <4>2. /\ req'[s].order = req[s].order /\ req'[s].snap = req[s].snap
            /\ req'[s].target = req[s].target
        BY <4>1, <1>2 DEF Request
      <4>3. evaluateOrderStatusTransition("DRIVER_ACTION", req[s].snap.status,
                                          req[s].target, receipt[req[s].order])
        <5>1. evaluateOrderStatusTransition("DRIVER_ACTION", req[s].snap.status, req[s].target,
                 req[s].target \in {"OUT_FOR_DELIVERY", "DELIVERED"} /\ receipt[req[s].order])
          BY <3>13 DEF DriverActionPolicy
        <5> QED
          BY <5>1 DEF evaluateOrderStatusTransition
      <4>4. receipt' = receipt /\ req[s].order \in Orders
        BY <3>13 DEF DriverActionPolicy, allButReq, rowsOnly, RequestInv
      <4> QED
        BY <4>2, <4>3, <4>4
    <3>14. CASE DriverActionCommit(s)
      <4>1. Respond(s) \/ req'[s] = [req[s] EXCEPT !.pc = "loyalty"]
        BY <3>14 DEF DriverActionCommit, TypeOK
      <4> QED
        BY <3>14, <4>1, <3>1, <3>2 DEF DriverActionCommit, PCs
    <3>15. ASSUME NEW o \in Orders, CancelRead(s, o) PROVE Kept
      BY <3>15 DEF CancelRead, TypeOK, Idle
    <3>16. ASSUME NEW o \in Orders, NEW c \in Customers, EditRead(s, o, c) PROVE Kept
      BY <3>16 DEF EditRead, TypeOK, Idle
    <3>17. CASE RecordDispatchEvent(s) \/ RecordLoyalty(s) \/ CancelCommit(s)
                \/ EditCommit(s) \/ Stop(s)
      BY <3>17, <3>1 DEF RecordDispatchEvent, RecordLoyalty, CancelCommit, EditCommit, Stop
    <3> QED
      BY <1>3, <2>2, <3>3, <3>4, <3>5, <3>6, <3>7, <3>8, <3>9, <3>10, <3>11, <3>12,
         <3>13, <3>14, <3>15, <3>16, <3>17 DEF RequestStep
  <2> QED
    BY <2>1, <2>2
<1>4. ASSUME Environment PROVE Kept
  <2>1. req' = req
    BY <1>4 DEF Environment, CreateSyntheticOrder, ReceiptByDriver, ReceiptByStaff,
       PresenceChange, RevokeAccess, RestoreAccess, updateAutoDispatchSettings, Tick
  <2> QED
    BY <2>1, <1>1
<1> QED
  BY <1>1, <1>3, <1>4 DEF Next, vars

\* Status and driver of the rows the handlers write.
LEMMA WrittenColumns ==
    ASSUME NEW row \in Row
    PROVE  /\ \A snap, target, now :
                /\ buildOrderTransitionTimestampData(row, snap, target, now).status = row.status
                /\ buildOrderTransitionTimestampData(row, snap, target, now).driver = row.driver
           /\ \A q : AssignedRow(row, q).driver = q.driver
           /\ \A q : AssignedRow(row, q).status =
                        IF q.snap.status \in {"PLACED", "DISPATCHED"} THEN "DISPATCHED"
                        ELSE row.status
           /\ \A snap : UnassignedRow(row, snap).driver = NoDriver
           /\ \A snap : UnassignedRow(row, snap).status =
                        IF snap.status = "DISPATCHED" THEN "PLACED" ELSE row.status
           /\ \A snap, target, now :
                LET new == [getFirstDispatchAttribution(
                              buildOrderTransitionTimestampData(row, snap, target, now),
                              snap, "DRIVER", NoUser) EXCEPT !.status = target]
                IN  new.status = target /\ new.driver = row.driver
<1>1. \A snap, target, now :
        /\ buildOrderTransitionTimestampData(row, snap, target, now).status = row.status
        /\ buildOrderTransitionTimestampData(row, snap, target, now).driver = row.driver
        /\ DOMAIN buildOrderTransitionTimestampData(row, snap, target, now) = DOMAIN row
  BY DEF buildOrderTransitionTimestampData, Row
<1>2. {"status", "driver", "assignedAt", "dispatchSource", "dispatchedByUserId",
       "dispatchedAt"} \subseteq DOMAIN row
  BY DEF Row
<1>3. \A x, snap, source, user :
        DOMAIN x = DOMAIN row =>
          /\ getFirstDispatchAttribution(x, snap, source, user).status = x.status
          /\ getFirstDispatchAttribution(x, snap, source, user).driver = x.driver
          /\ DOMAIN getFirstDispatchAttribution(x, snap, source, user) = DOMAIN row
  BY <1>2 DEF getFirstDispatchAttribution
<1>4. ASSUME NEW q
      PROVE  /\ AssignedRow(row, q).driver = q.driver
             /\ AssignedRow(row, q).status =
                  IF q.snap.status \in {"PLACED", "DISPATCHED"} THEN "DISPATCHED"
                  ELSE row.status
  <2> DEFINE a == getFirstDispatchAttribution(
                    buildOrderTransitionTimestampData(row, q.snap, "DISPATCHED", q.now),
                    q.snap, "MANUAL", q.user)
  <2>1. DOMAIN a = DOMAIN row
    BY <1>1, <1>3
  <2> HIDE DEF a
  <2>2. AssignedRow(row, q) =
          [(IF q.snap.status \in {"PLACED", "DISPATCHED"}
            THEN [a EXCEPT !.status = "DISPATCHED"] ELSE row) EXCEPT
              !.driver = q.driver,
              !.assignedAt = IF q.snap.driver # q.driver THEN q.now
                             ELSE Coalesce(q.snap.assignedAt, q.now)]
    BY DEF AssignedRow, a
  <2> QED
    BY <2>1, <2>2, <1>2
<1>5. \A snap : /\ UnassignedRow(row, snap).driver = NoDriver
                /\ UnassignedRow(row, snap).status =
                     IF snap.status = "DISPATCHED" THEN "PLACED" ELSE row.status
  BY <1>2 DEF UnassignedRow
<1>6. ASSUME NEW snap, NEW target, NEW now
      PROVE  LET new == [getFirstDispatchAttribution(
                           buildOrderTransitionTimestampData(row, snap, target, now),
                           snap, "DRIVER", NoUser) EXCEPT !.status = target]
             IN  new.status = target /\ new.driver = row.driver
  <2> DEFINE a == getFirstDispatchAttribution(
                    buildOrderTransitionTimestampData(row, snap, target, now),
                    snap, "DRIVER", NoUser)
  <2>1. DOMAIN a = DOMAIN row /\ a.driver = row.driver
    BY <1>1, <1>3
  <2> HIDE DEF a
  <2>2. LET new == [a EXCEPT !.status = target] IN
          new.status = target /\ new.driver = row.driver
    BY <2>1, <1>2
  <2> QED
    BY <2>2 DEF a
<1> QED
  BY <1>1, <1>4, <1>5, <1>6

\* The empty order table maps to the initial state of the status matrix.
LEMMA RefinementInit == Init => Abstract!AbsInit
BY DEF Init, Abstract!AbsInit, AbsentRow

\* Every statement of every handler maps to a step of the status matrix or to a
\* stutter: one step of the proof per action.
LEMMA RefinementNext ==
    TypeOK /\ CoherenceInv /\ RequestInv /\ [Next]_vars =>
        [Abstract!AbsNext]_(Abstract!absVars)
<1> SUFFICES ASSUME TypeOK, CoherenceInv, RequestInv, [Next]_vars
             PROVE  Abstract!AbsNext \/ UNCHANGED Abstract!absVars
  BY DEF Abstract!absVars
<1> USE LifecycleAssumption
<1> DEFINE st == [o \in Orders |-> order[o].status]
           dr == [o \in Orders |-> order[o].driver]
           Stutter == st' = st /\ dr' = dr /\ receipt' = receipt /\ access' = access
<1>s. Stutter => UNCHANGED Abstract!absVars
  BY DEF Abstract!absVars
<1>o. order' = order => st' = st /\ dr' = dr
  OBVIOUS
<1>a. \A o \in Orders : order[o] \in Row
  BY DEF TypeOK
<1>m. ASSUME NEW o \in Orders, NEW x, order' = [order EXCEPT ![o] = x]
      PROVE  st' = [st EXCEPT ![o] = x.status] /\ dr' = [dr EXCEPT ![o] = x.driver]
  BY <1>m DEF TypeOK
<1>n. ASSUME NEW o \in Orders, NEW s, NEW d, NEW x, order' = [order EXCEPT ![o] = x],
             x.status = s, x.driver = d
      PROVE  /\ st' = [st EXCEPT ![o] = s] /\ dr' = [dr EXCEPT ![o] = d]
             /\ order[o].status = s => st' = st
             /\ order[o].driver = d => dr' = dr
             /\ st[o] = order[o].status
  BY <1>n DEF TypeOK
<1>i. \A o \in Orders : /\ st[o] = order[o].status /\ dr[o] = order[o].driver
                        /\ [st EXCEPT ![o] = order[o].status] = st
                        /\ [dr EXCEPT ![o] = order[o].driver] = dr
  OBVIOUS
\* How the steps of the abstract specification are recognised.
<1>A1. ASSUME NEW o \in Orders, NEW to \in {"PLACED", "CANCELLED"},
              st[o] = "ABSENT", st' = [st EXCEPT ![o] = to], dr' = dr,
              receipt' = receipt, access' = access
       PROVE  Abstract!AbsNext
  BY <1>A1 DEF Abstract!AbsNext, Abstract!Place, Abstract!Move
<1>A2. ASSUME NEW o \in Orders, NEW d \in Drivers, access[d],
              \/ /\ st[o] \in {"PLACED", "DISPATCHED"}
                 /\ st' = [st EXCEPT ![o] = "DISPATCHED"]
              \/ st[o] \in {"ACCEPTED", "OUT_FOR_DELIVERY"} /\ st' = st,
              dr' = [dr EXCEPT ![o] = d], receipt' = receipt, access' = access
       PROVE  Abstract!AbsNext
  <2>1. Abstract!Assign(o, d)
    BY <1>A2 DEF Abstract!Assign, Abstract!Move
  <2> QED
    BY <2>1 DEF Abstract!AbsNext
<1>A3. ASSUME NEW o \in Orders,
              \/ /\ st[o] \in {"PLACED", "DISPATCHED"}
                 /\ st' = [st EXCEPT ![o] = "PLACED"]
              \/ st[o] \in {"ACCEPTED", "OUT_FOR_DELIVERY"} /\ st' = st,
              dr' = [dr EXCEPT ![o] = NoDriver], receipt' = receipt, access' = access
       PROVE  Abstract!AbsNext
  <2>1. Abstract!Unassign(o)
    BY <1>A3 DEF Abstract!Unassign, Abstract!Move
  <2> QED
    BY <2>1 DEF Abstract!AbsNext
<1>A4. ASSUME NEW o \in Orders, NEW to,
              dr[o] # NoDriver, st' = [st EXCEPT ![o] = to],
              \/ st[o] = "DISPATCHED" /\ to = "ACCEPTED"
              \/ st[o] = "ACCEPTED" /\ to = "OUT_FOR_DELIVERY" /\ receipt[o]
              \/ st[o] = "OUT_FOR_DELIVERY" /\ to = "DELIVERED" /\ receipt[o],
              dr' = dr, receipt' = receipt, access' = access
       PROVE  Abstract!AbsNext
  <2>1. Abstract!Accept(o) \/ Abstract!PickUp(o) \/ Abstract!Deliver(o)
    BY <1>A4 DEF Abstract!Accept, Abstract!PickUp, Abstract!Deliver, Abstract!Move
  <2> QED
    BY <2>1 DEF Abstract!AbsNext
<1>A5. ASSUME NEW o \in Orders, st[o] # "ABSENT", receipt' = [receipt EXCEPT ![o] = TRUE],
              \/ st' = st
              \/ /\ dr[o] # NoDriver /\ st[o] = "ACCEPTED"
                 /\ st' = [st EXCEPT ![o] = "OUT_FOR_DELIVERY"],
              dr' = dr, access' = access
       PROVE  Abstract!AbsNext
  <2>1. Abstract!SaveReceipt(o)
    BY <1>A5 DEF Abstract!SaveReceipt, Abstract!Move
  <2> QED
    BY <2>1 DEF Abstract!AbsNext
<1>A6. ASSUME NEW o \in Orders, st[o] \in operationalStatuses,
              st' = [st EXCEPT ![o] = "CANCELLED"],
              dr' = dr, receipt' = receipt, access' = access
       PROVE  Abstract!AbsNext
  <2>1. Abstract!Cancel(o)
    BY <1>A6 DEF Abstract!Cancel, Abstract!Move, Abstract!Live, operationalStatuses
  <2> QED
    BY <2>1 DEF Abstract!AbsNext
<1>A7. ASSUME NEW d \in Drivers, NEW b \in BOOLEAN, access' = [access EXCEPT ![d] = b],
              ~b => \A o \in Orders : ~(dr[o] = d /\ st[o] \in operationalStatuses),
              st' = st, dr' = dr, receipt' = receipt
       PROVE  Abstract!AbsNext
  <2>1. Abstract!Distrust(d) \/ Abstract!Trust(d)
    BY <1>A7 DEF Abstract!Distrust, Abstract!Trust, Abstract!Live, operationalStatuses
  <2> QED
    BY <2>1 DEF Abstract!AbsNext
<1> HIDE DEF st, dr
<1>2. ASSUME NEW r \in Requests, RequestStep(r)
      PROVE  Abstract!AbsNext \/ Stutter
  <2> DEFINE q == req[r]
  <2>a. q \in Request /\ SnapshotCoherent(q, clock)
    BY DEF TypeOK, CoherenceInv
  <2>b. q.pc # "idle" => q.order \in Orders /\ order[q.order] \in Row
    BY <1>a DEF RequestInv
  <2>1. ASSUME NEW o \in Orders, NEW c \in Customers, CreateOrder(r, o, c)
        PROVE  Abstract!AbsNext
    <3>1. NewRow(c).status = "PLACED" /\ NewRow(c).driver = NoDriver
      BY DEF NewRow, AbsentRow
    <3>2. order[o].status = "ABSENT" /\ order[o].driver = NoDriver
      BY <2>1 DEF CreateOrder, Exists, CoherenceInv, Coherent
    <3>3. st' = [st EXCEPT ![o] = "PLACED"] /\ dr' = dr /\ st[o] = "ABSENT"
      <4>1. order' = [order EXCEPT ![o] = NewRow(c)]
        BY <2>1 DEF CreateOrder
      <4> QED
        BY <3>1, <3>2, <4>1, <1>n
    <3> QED
      BY <2>1, <3>3, <1>A1 DEF CreateOrder, rowsOnly
  <2>3. CASE AutoDispatchAllocate(r)
    <3>1. q.order \in Orders /\ order[q.order] \in Row /\ order[q.order].status = "PLACED"
      BY <2>3, <2>b DEF AutoDispatchAllocate, evaluateOrderStatusTransition
    <3> DEFINE stamped == buildOrderTransitionTimestampData(order[q.order], order[q.order],
                                                            "DISPATCHED", clock)
    <3>2. PICK d \in Drivers :
            /\ access[d]
            /\ order' = [order EXCEPT ![q.order] =
                 [stamped EXCEPT !.status = "DISPATCHED", !.driver = d, !.assignedAt = clock,
                    !.dispatchSource = "AUTO", !.dispatchedByUserId = NoUser]]
      BY <2>3 DEF AutoDispatchAllocate, lockAssignableDriver
    <3>3. stamped \in Row
      BY <3>1, TimestampDataType DEF TypeOK
    <3> HIDE DEF stamped
    <3> DEFINE x == [stamped EXCEPT !.status = "DISPATCHED", !.driver = d, !.assignedAt = clock,
                    !.dispatchSource = "AUTO", !.dispatchedByUserId = NoUser]
    <3>4. x.status = "DISPATCHED" /\ x.driver = d
      BY <3>3 DEF Row
    <3>5. order' = [order EXCEPT ![q.order] = x]
      BY <3>2
    <3> HIDE DEF x
    <3>6. st' = [st EXCEPT ![q.order] = "DISPATCHED"] /\ dr' = [dr EXCEPT ![q.order] = d]
      BY <3>1, <3>4, <3>5, <1>m
    <3>7. st[q.order] = "PLACED" /\ receipt' = receipt /\ access' = access
      BY <3>1, <1>i, <2>3 DEF AutoDispatchAllocate, rowsOnly
    <3> QED
      BY <3>1, <3>2, <3>6, <3>7, <1>A2
  <2>7. CASE AssignCommit(r)
    <3>1. /\ q.order \in Orders /\ order[q.order] \in Row /\ q.driver \in Drivers
          /\ access[q.driver] /\ order[q.order].status = q.snap.status
          /\ q.snap.status \in operationalStatuses
          /\ order' = [order EXCEPT ![q.order] = AssignedRow(order[q.order], q)]
          /\ receipt' = receipt /\ access' = access
      BY <2>7, <2>a, <2>b DEF AssignCommit, lockAssignableDriver, SnapshotCoherent, rowsOnly
    <3> DEFINE x == AssignedRow(order[q.order], q)
    <3>2. /\ x.driver = q.driver
          /\ x.status = IF q.snap.status \in {"PLACED", "DISPATCHED"} THEN "DISPATCHED"
                        ELSE order[q.order].status
      BY <3>1, WrittenColumns
    <3>3. order' = [order EXCEPT ![q.order] = x]
      BY <3>1
    <3> HIDE DEF x
    <3>4. st' = [st EXCEPT ![q.order] = x.status] /\ dr' = [dr EXCEPT ![q.order] = q.driver]
      <4>1. q.order \in Orders /\ x.driver = q.driver
        BY <3>1, <3>2
      <4>2. st' = [st EXCEPT ![q.order] = x.status]
        BY <3>3, <4>1 DEF st, TypeOK
      <4>3. dr' = [dr EXCEPT ![q.order] = q.driver]
        BY <3>3, <4>1 DEF dr, TypeOK
      <4> QED
        BY <4>2, <4>3
    <3>5. st[q.order] = q.snap.status /\ [st EXCEPT ![q.order] = q.snap.status] = st
      BY <3>1, <1>i
    <3> QED
      BY <3>1, <3>2, <3>4, <3>5, <1>A2 DEF operationalStatuses
  <2>9. CASE UnassignCommit(r)
    <3>1. /\ q.order \in Orders /\ order[q.order] \in Row
          /\ order[q.order].status = q.snap.status
          /\ q.snap.status \in operationalStatuses
          /\ order' = [order EXCEPT ![q.order] = UnassignedRow(order[q.order], q.snap)]
          /\ receipt' = receipt /\ access' = access
      BY <2>9, <2>a, <2>b DEF UnassignCommit, SnapshotCoherent, rowsOnly
    <3> DEFINE x == UnassignedRow(order[q.order], q.snap)
    <3>2. /\ x.driver = NoDriver
          /\ x.status = IF q.snap.status = "DISPATCHED" THEN "PLACED"
                        ELSE order[q.order].status
      BY <3>1, WrittenColumns
    <3>3. order' = [order EXCEPT ![q.order] = x]
      BY <3>1
    <3> HIDE DEF x
    <3>4. st' = [st EXCEPT ![q.order] = x.status] /\ dr' = [dr EXCEPT ![q.order] = NoDriver]
      BY <3>1, <3>2, <3>3, <1>m
    <3>5. st[q.order] = q.snap.status /\ [st EXCEPT ![q.order] = q.snap.status] = st
      BY <3>1, <1>i
    <3> QED
      BY <3>1, <3>2, <3>4, <3>5, <1>A3 DEF operationalStatuses
  <2>13. CASE DriverActionCommit(r)
    <3> DEFINE x == [getFirstDispatchAttribution(
                        buildOrderTransitionTimestampData(order[q.order], q.snap,
                                                          q.target, q.now),
                        q.snap, "DRIVER", NoUser) EXCEPT !.status = q.target]
    <3>1. /\ q.order \in Orders /\ order[q.order] \in Row
          /\ order[q.order].status = q.snap.status /\ order[q.order].driver = q.driver
          /\ q.pc = "write" /\ q.kind = "action"
          /\ order' = [order EXCEPT ![q.order] = x]
          /\ receipt' = receipt /\ access' = access
      BY <2>13, <2>b DEF DriverActionCommit, rowsOnly
    <3>2. /\ q.driver # NoDriver
          /\ evaluateOrderStatusTransition("DRIVER_ACTION", q.snap.status, q.target,
                                           receipt[q.order])
      BY <3>1, <2>a DEF SnapshotCoherent, RequestInv
    <3>3. x.status = q.target /\ x.driver = order[q.order].driver
      BY <3>1, WrittenColumns
    <3> HIDE DEF x
    <3>4. st' = [st EXCEPT ![q.order] = q.target] /\ dr' = dr
      BY <3>1, <3>3 DEF st, dr, TypeOK
    <3>5. st[q.order] = q.snap.status /\ dr[q.order] # NoDriver
      BY <3>1, <3>2, <1>i
    <3>6. q.snap.status # "PLACED"
      BY <3>1, <3>2 DEF CoherenceInv, Coherent, StatusTimes
    <3>7. \/ st[q.order] = "DISPATCHED" /\ q.target = "ACCEPTED"
          \/ st[q.order] = "ACCEPTED" /\ q.target = "OUT_FOR_DELIVERY" /\ receipt[q.order]
          \/ st[q.order] = "OUT_FOR_DELIVERY" /\ q.target = "DELIVERED" /\ receipt[q.order]
      BY <3>2, <3>5, <3>6 DEF evaluateOrderStatusTransition
    <3> QED
      BY <3>1, <3>4, <3>5, <3>7, <1>A4
  <2>16. CASE CancelCommit(r)
    <3> DEFINE x == [order[q.order] EXCEPT !.status = "CANCELLED",
                                           !.cancelledFrom = q.snap.status]
    <3>1. /\ q.order \in Orders /\ order[q.order] \in Row
          /\ order[q.order].status = q.snap.status
          /\ q.snap.status \in operationalStatuses
          /\ receipt' = receipt /\ access' = access
      BY <2>16, <2>a, <2>b DEF CancelCommit, SnapshotCoherent, rowsOnly
    <3>2. order' = [order EXCEPT ![q.order] = x]
      BY <2>16, <3>1 DEF CancelCommit, TypeOK
    <3>3. x.status = "CANCELLED" /\ x.driver = order[q.order].driver
      BY <3>1 DEF Row
    <3> HIDE DEF x
    <3>4. st' = [st EXCEPT ![q.order] = "CANCELLED"] /\ dr' = dr
      BY <3>1, <3>2, <3>3 DEF st, dr, TypeOK
    <3> QED
      BY <3>1, <3>4, <1>i, <1>A6
  <2>18. CASE EditCommit(r)
    <3> DEFINE x == [order[q.order] EXCEPT !.customer = q.customer]
    <3>1. q.order \in Orders /\ order[q.order] \in Row
          /\ receipt' = receipt /\ access' = access
      BY <2>18, <2>b DEF EditCommit, rowsOnly
    <3>2. order' = [order EXCEPT ![q.order] = x]
      BY <2>18, <3>1 DEF EditCommit, TypeOK
    <3>3. x.status = order[q.order].status /\ x.driver = order[q.order].driver
      BY <3>1 DEF Row
    <3> HIDE DEF x
    <3> QED
      BY <3>1, <3>2, <3>3, <1>n, <1>i
  <2>19. CASE \/ AutoDispatchPlan(r) \/ AutoDispatchHeld(r) \/ AssignPolicy(r)
              \/ DriverActionPolicy(r) \/ RecordDispatchEvent(r) \/ RecordLoyalty(r)
              \/ Stop(r)
    BY <2>19, <1>o DEF AutoDispatchPlan, AutoDispatchHeld, AssignPolicy, DriverActionPolicy,
       RecordDispatchEvent, RecordLoyalty, Stop, allButReq, rowsOnly
  <2>20. CASE \/ \E o \in Orders, d \in Drivers, u \in Users, p \in BOOLEAN :
                    AssignRead(r, o, d, u, p)
              \/ \E o \in Orders, u \in Users : UnassignRead(r, o, u)
              \/ \E o \in Orders, d \in Drivers,
                    target \in {"ACCEPTED", "OUT_FOR_DELIVERY", "DELIVERED"} :
                    DriverActionRead(r, o, d, target)
              \/ \E o \in Orders : CancelRead(r, o)
              \/ \E o \in Orders, c \in Customers : EditRead(r, o, c)
    BY <2>20, <1>o DEF AssignRead, UnassignRead, DriverActionRead, CancelRead, EditRead,
       allButReq, rowsOnly
  <2> QED
    BY <1>2, <2>1, <2>3, <2>7, <2>9, <2>13, <2>16, <2>18, <2>19, <2>20 DEF RequestStep
<1>3. ASSUME Environment PROVE Abstract!AbsNext \/ Stutter
  <2>1. ASSUME NEW o \in Orders, CreateSyntheticOrder(o) PROVE Abstract!AbsNext
    <3> DEFINE x == [NewRow(Reviewer) EXCEPT !.status = "CANCELLED",
                                             !.cancelledFrom = "PLACED"]
    <3>1. x.status = "CANCELLED" /\ x.driver = NoDriver
      BY DEF NewRow, AbsentRow
    <3>2. order[o].status = "ABSENT" /\ order[o].driver = NoDriver
      BY <2>1 DEF CreateSyntheticOrder, Exists, CoherenceInv, Coherent
    <3>3. order' = [order EXCEPT ![o] = x] /\ receipt' = receipt /\ access' = access
      BY <2>1 DEF CreateSyntheticOrder, rowsOnly
    <3> HIDE DEF x
    <3>4. st' = [st EXCEPT ![o] = "CANCELLED"] /\ dr' = dr /\ st[o] = "ABSENT"
      BY <3>1, <3>2, <3>3, <1>n, <1>i
    <3> QED
      BY <3>3, <3>4, <1>A1
  <2>2. ASSUME NEW o \in Orders, NEW d \in Drivers, ReceiptByDriver(o, d)
        PROVE  Abstract!AbsNext
    <3>1. /\ order[o].status # "ABSENT" /\ order[o].driver = d /\ order[o] \in Row
          /\ receipt' = [receipt EXCEPT ![o] = TRUE] /\ access' = access
      BY <2>2, <1>a DEF ReceiptByDriver, Exists
    <3>2. CASE evaluateOrderStatusTransition("RECEIPT", order[o].status,
                                             "OUT_FOR_DELIVERY", TRUE)
      <4> DEFINE stamped == buildOrderTransitionTimestampData(order[o], order[o],
                                                              "OUT_FOR_DELIVERY", clock)
                 x == [stamped EXCEPT !.status = "OUT_FOR_DELIVERY"]
      <4>1. order[o].status = "ACCEPTED"
        BY <3>2 DEF evaluateOrderStatusTransition
      <4>2. order' = [order EXCEPT ![o] = x]
        BY <2>2, <3>2 DEF ReceiptByDriver
      <4>3. stamped \in Row /\ stamped.driver = order[o].driver
        <5>1. clock \in Nat
          BY DEF TypeOK
        <5>2. stamped.driver = order[o].driver
          BY <3>1 DEF buildOrderTransitionTimestampData, Row
        <5> QED
          BY <3>1, <5>1, <5>2, TimestampDataType
      <4> HIDE DEF stamped
      <4>4. x.status = "OUT_FOR_DELIVERY" /\ x.driver = order[o].driver
        BY <4>3 DEF Row
      <4> HIDE DEF x
      <4>5. st' = [st EXCEPT ![o] = "OUT_FOR_DELIVERY"] /\ dr' = dr
        BY <4>2, <4>4, <1>n, <1>i
      <4>6. st[o] = "ACCEPTED" /\ dr[o] # NoDriver
        BY <3>1, <4>1, <1>i
      <4> QED
        BY <3>1, <4>5, <4>6, <1>A5
    <3>3. CASE ~evaluateOrderStatusTransition("RECEIPT", order[o].status,
                                              "OUT_FOR_DELIVERY", TRUE)
      <4>1. order' = order
        BY <2>2, <3>3 DEF ReceiptByDriver
      <4> QED
        BY <3>1, <4>1, <1>o, <1>i, <1>A5
    <3> QED
      BY <3>2, <3>3
  <2>3. ASSUME NEW o \in Orders, ReceiptByStaff(o) PROVE Abstract!AbsNext
    <3>1. /\ st[o] # "ABSENT" /\ receipt' = [receipt EXCEPT ![o] = TRUE]
          /\ st' = st /\ dr' = dr /\ access' = access
      BY <2>3, <1>o, <1>i DEF ReceiptByStaff, Exists
    <3> QED
      BY <3>1, <1>A5
  <2>5. ASSUME NEW d \in Drivers, RevokeAccess(d) PROVE Abstract!AbsNext
    <3>1. /\ \A o \in Orders : ~(dr[o] = d /\ st[o] \in operationalStatuses)
          /\ access' = [access EXCEPT ![d] = FALSE]
          /\ st' = st /\ dr' = dr /\ receipt' = receipt
      BY <2>5, <1>o, <1>i DEF RevokeAccess, Unfinished
    <3> QED
      BY <3>1, <1>A7
  <2>6. ASSUME NEW d \in Drivers, RestoreAccess(d) PROVE Abstract!AbsNext
    <3>1. /\ access' = [access EXCEPT ![d] = TRUE]
          /\ st' = st /\ dr' = dr /\ receipt' = receipt
      BY <2>6, <1>o DEF RestoreAccess
    <3> QED
      BY <3>1, <1>A7
  <2>7. CASE \/ \E d \in Drivers : PresenceChange(d)
             \/ updateAutoDispatchSettings
             \/ Tick
    BY <2>7, <1>o DEF PresenceChange, updateAutoDispatchSettings, Tick
  <2> QED
    BY <1>3, <2>1, <2>2, <2>3, <2>5, <2>6, <2>7 DEF Environment
<1>4. CASE UNCHANGED vars
  <2>1. order' = order /\ receipt' = receipt /\ access' = access
    BY <1>4 DEF vars
  <2> QED
    BY <2>1, <1>o, <1>s
<1> QED
  BY <1>s, <1>2, <1>3, <1>4 DEF Next

\* Every behaviour of the handlers, for any numbers of orders, drivers and
\* concurrent requests, is a behaviour of the documented status matrix.
THEOREM LifecycleRefinement == Spec => ImplementsStatusMatrix
BY TypeCorrect, CoherenceInit, CoherenceNext, RequestInit, RequestNext,
   RefinementInit, RefinementNext, PTL DEF Spec, ImplementsStatusMatrix, Abstract!AbsSpec

-----------------------------------------------------------------------------
(***************************************************************************)
(* What the status matrix guarantees of itself.                            *)
(***************************************************************************)

\* In the status matrix itself, orders out for delivery have a receipt and drivers of
\* unfinished orders are trusted; the invariant is inductive there.
LEMMA MatrixSafety ==
    TypeOK /\ CoherenceInv /\ ReceiptBeforePickup /\ AssignedDriverKeepsAccess
    /\ [Abstract!AbsNext]_(Abstract!absVars)
        => (ReceiptBeforePickup /\ AssignedDriverKeepsAccess)'
<1> SUFFICES ASSUME TypeOK, CoherenceInv, ReceiptBeforePickup, AssignedDriverKeepsAccess,
                    Abstract!AbsNext \/ UNCHANGED Abstract!absVars
             PROVE  (ReceiptBeforePickup /\ AssignedDriverKeepsAccess)'
  BY DEF Abstract!absVars
<1> USE LifecycleAssumption
<1> DEFINE st == [o \in Orders |-> order[o].status]
           dr == [o \in Orders |-> order[o].driver]
           Picked == \A o \in Orders :
                        st[o] \in {"OUT_FOR_DELIVERY", "DELIVERED"} => receipt[o]
           Kept == \A o \in Orders :
                      st[o] \in operationalStatuses /\ dr[o] # NoDriver => access[dr[o]]
<1>1. /\ Picked /\ Kept
      /\ \A o \in Orders : st[o] = "ABSENT" => dr[o] = NoDriver
      /\ \A o \in Orders : dr[o] \in Drivers \cup {NoDriver}
      /\ receipt \in [Orders -> BOOLEAN] /\ access \in [Drivers -> BOOLEAN]
      /\ DOMAIN st = Orders /\ DOMAIN dr = Orders
  BY DEF ReceiptBeforePickup, AssignedDriverKeepsAccess, Unfinished, CoherenceInv, Coherent,
         TypeOK, Row
<1>2. ASSUME Picked', Kept' PROVE (ReceiptBeforePickup /\ AssignedDriverKeepsAccess)'
  BY <1>2 DEF ReceiptBeforePickup, AssignedDriverKeepsAccess, Unfinished
<1>3. CASE UNCHANGED Abstract!absVars
  <2>1. st' = st /\ dr' = dr /\ receipt' = receipt /\ access' = access
    BY <1>3 DEF Abstract!absVars
  <2> HIDE DEF st, dr
  <2> QED
    BY <2>1, <1>1, <1>2
<1>4. CASE Abstract!AbsNext
  <2>1. ASSUME NEW o \in Orders, Abstract!Place(o) PROVE Picked' /\ Kept'
    <3>1. /\ st[o] = "ABSENT"
          /\ st' = [st EXCEPT ![o] = "PLACED"] \/ st' = [st EXCEPT ![o] = "CANCELLED"]
          /\ dr' = dr /\ receipt' = receipt /\ access' = access
      BY <2>1 DEF Abstract!Place, Abstract!Move
    <3> HIDE DEF st, dr
    <3> QED
      BY <3>1, <1>1 DEF operationalStatuses
  <2>2. ASSUME NEW o \in Orders, NEW d \in Drivers, Abstract!Assign(o, d)
        PROVE  Picked' /\ Kept'
    <3>1. /\ access[d]
          /\ \/ st[o] \in {"PLACED", "DISPATCHED"} /\ st' = [st EXCEPT ![o] = "DISPATCHED"]
             \/ st[o] \in {"ACCEPTED", "OUT_FOR_DELIVERY"} /\ st' = st
          /\ dr' = [dr EXCEPT ![o] = d] /\ receipt' = receipt /\ access' = access
      BY <2>2 DEF Abstract!Assign, Abstract!Move
    <3> HIDE DEF st, dr
    <3> QED
      BY <3>1, <1>1 DEF operationalStatuses
  <2>3. ASSUME NEW o \in Orders, Abstract!Unassign(o) PROVE Picked' /\ Kept'
    <3>1. /\ \/ st[o] \in {"PLACED", "DISPATCHED"} /\ st' = [st EXCEPT ![o] = "PLACED"]
             \/ st[o] \in {"ACCEPTED", "OUT_FOR_DELIVERY"} /\ st' = st
          /\ dr' = [dr EXCEPT ![o] = NoDriver] /\ receipt' = receipt /\ access' = access
      BY <2>3 DEF Abstract!Unassign, Abstract!Move
    <3> HIDE DEF st, dr
    <3> QED
      BY <3>1, <1>1 DEF operationalStatuses
  <2>4. ASSUME NEW o \in Orders, Abstract!Accept(o) \/ Abstract!PickUp(o) \/ Abstract!Deliver(o)
        PROVE  Picked' /\ Kept'
    <3>1. /\ \/ st[o] = "DISPATCHED" /\ st' = [st EXCEPT ![o] = "ACCEPTED"]
             \/ st[o] = "ACCEPTED" /\ receipt[o] /\ st' = [st EXCEPT ![o] = "OUT_FOR_DELIVERY"]
             \/ st[o] = "OUT_FOR_DELIVERY" /\ receipt[o] /\ st' = [st EXCEPT ![o] = "DELIVERED"]
          /\ dr' = dr /\ receipt' = receipt /\ access' = access
      BY <2>4 DEF Abstract!Accept, Abstract!PickUp, Abstract!Deliver, Abstract!Move
    <3> HIDE DEF st, dr
    <3> QED
      BY <3>1, <1>1 DEF operationalStatuses
  <2>5. ASSUME NEW o \in Orders, Abstract!SaveReceipt(o) PROVE Picked' /\ Kept'
    <3>1. /\ st' = st \/ (st[o] = "ACCEPTED" /\ st' = [st EXCEPT ![o] = "OUT_FOR_DELIVERY"])
          /\ dr' = dr /\ receipt' = [receipt EXCEPT ![o] = TRUE] /\ access' = access
      BY <2>5 DEF Abstract!SaveReceipt, Abstract!Move
    <3> HIDE DEF st, dr
    <3> QED
      BY <3>1, <1>1 DEF operationalStatuses
  <2>6. ASSUME NEW o \in Orders, Abstract!Cancel(o) PROVE Picked' /\ Kept'
    <3>1. /\ st' = [st EXCEPT ![o] = "CANCELLED"]
          /\ dr' = dr /\ receipt' = receipt /\ access' = access
      BY <2>6 DEF Abstract!Cancel, Abstract!Move
    <3> HIDE DEF st, dr
    <3> QED
      BY <3>1, <1>1 DEF operationalStatuses
  <2>7. ASSUME NEW d \in Drivers, Abstract!Distrust(d) PROVE Picked' /\ Kept'
    <3>1. /\ \A o \in Orders : ~(dr[o] = d /\ st[o] \in operationalStatuses)
          /\ access' = [access EXCEPT ![d] = FALSE]
          /\ st' = st /\ dr' = dr /\ receipt' = receipt
      BY <2>7 DEF Abstract!Distrust, Abstract!Live, operationalStatuses
    <3> HIDE DEF st, dr
    <3> QED
      BY <3>1, <1>1
  <2>8. ASSUME NEW d \in Drivers, Abstract!Trust(d) PROVE Picked' /\ Kept'
    <3>1. access' = [access EXCEPT ![d] = TRUE] /\ st' = st /\ dr' = dr /\ receipt' = receipt
      BY <2>8 DEF Abstract!Trust
    <3> HIDE DEF st, dr
    <3> QED
      BY <3>1, <1>1
  <2> HIDE DEF Picked, Kept
  <2> QED
    BY <1>2, <1>4, <2>1, <2>2, <2>3, <2>4, <2>5, <2>6, <2>7, <2>8 DEF Abstract!AbsNext
<1> QED
  BY <1>3, <1>4

\* No order is ever picked up or delivered without a persisted receipt, for any
\* number of orders, drivers and concurrent requests.
THEOREM ReceiptsPrecedePickup == Spec => []ReceiptBeforePickup
<1>1. Init => ReceiptBeforePickup /\ AssignedDriverKeepsAccess
  BY DEF Init, AbsentRow, ReceiptBeforePickup, AssignedDriverKeepsAccess, Unfinished,
         operationalStatuses
<1> QED
  BY <1>1, TypeCorrect, CoherenceInit, CoherenceNext, RequestInit, RequestNext,
     RefinementNext, MatrixSafety, PTL DEF Spec

\* A driver holding an unfinished delivery never loses access, and no order is
\* ever given to an account without it.
THEOREM DriversKeepAccess == Spec => []AssignedDriverKeepsAccess
<1>1. Init => ReceiptBeforePickup /\ AssignedDriverKeepsAccess
  BY DEF Init, AbsentRow, ReceiptBeforePickup, AssignedDriverKeepsAccess, Unfinished,
         operationalStatuses
<1> QED
  BY <1>1, TypeCorrect, CoherenceInit, CoherenceNext, RequestInit, RequestNext,
     RefinementNext, MatrixSafety, PTL DEF Spec

-----------------------------------------------------------------------------
(***************************************************************************)
(* The end of an order: its row is frozen, and its loyalty is credited by  *)
(* the one request that won the delivery.                                  *)
(***************************************************************************)

\* The handlers that write a row write an unfinished one, whatever they had read
\* before; updateOrderDetailsController alone writes any, and only its customer.
LEMMA FinalRowNext ==
    ASSUME TypeOK, CoherenceInv, RequestInv, [Next]_vars,
           NEW o \in Orders, order[o].status \in FinalStatuses
    PROVE  order'[o] = [order[o] EXCEPT !.customer = order'[o].customer]
<1> DEFINE Frozen == order'[o] = [order[o] EXCEPT !.customer = order'[o].customer]
<1>1. order[o] \in Row
  BY DEF TypeOK
<1>2. ASSUME order'[o] = order[o] PROVE Frozen
  BY <1>1, <1>2 DEF Row
<1>3. ASSUME NEW p, NEW x, order' = [order EXCEPT ![p] = x], p # o PROVE Frozen
  BY <1>2, <1>3 DEF TypeOK
<1>4. ASSUME NEW r \in Requests, RequestStep(r) PROVE Frozen
  <2> DEFINE q == req[r]
  <2>a. SnapshotCoherent(q, clock)
    BY DEF CoherenceInv
  <2>1. ASSUME NEW p \in Orders, NEW c \in Customers, CreateOrder(r, p, c) PROVE Frozen
    <3>1. p # o
      BY <2>1 DEF CreateOrder, Exists, FinalStatuses
    <3> QED
      BY <2>1, <3>1, <1>3 DEF CreateOrder
  <2>2. CASE AutoDispatchAllocate(r)
    <3>1. q.order # o
      BY <2>2 DEF AutoDispatchAllocate, evaluateOrderStatusTransition, FinalStatuses
    <3>2. PICK x : order' = [order EXCEPT ![q.order] = x]
      BY <2>2 DEF AutoDispatchAllocate
    <3> QED
      BY <3>1, <3>2, <1>3
  <2>3. CASE AssignCommit(r)
    <3>1. q.order # o
      BY <2>3, <2>a DEF AssignCommit, SnapshotCoherent, operationalStatuses, FinalStatuses
    <3>2. order' = [order EXCEPT ![q.order] = AssignedRow(order[q.order], q)]
      BY <2>3 DEF AssignCommit
    <3> QED
      BY <3>1, <3>2, <1>3
  <2>4. CASE UnassignCommit(r)
    <3>1. q.order # o
      BY <2>4, <2>a DEF UnassignCommit, SnapshotCoherent, operationalStatuses, FinalStatuses
    <3>2. order' = [order EXCEPT ![q.order] = UnassignedRow(order[q.order], q.snap)]
      BY <2>4 DEF UnassignCommit
    <3> QED
      BY <3>1, <3>2, <1>3
  <2>5. CASE DriverActionCommit(r)
    <3>1. /\ order[q.order].status = q.snap.status
          /\ evaluateOrderStatusTransition("DRIVER_ACTION", q.snap.status, q.target, TRUE)
      BY <2>5, <2>a DEF DriverActionCommit, SnapshotCoherent
    <3>2. q.order # o
      BY <3>1 DEF evaluateOrderStatusTransition, FinalStatuses
    <3>3. PICK x : order' = [order EXCEPT ![q.order] = x]
      BY <2>5 DEF DriverActionCommit
    <3> QED
      BY <3>2, <3>3, <1>3
  <2>6. CASE CancelCommit(r)
    <3>1. q.order # o
      BY <2>6, <2>a DEF CancelCommit, SnapshotCoherent, operationalStatuses, FinalStatuses
    <3>2. order'[o] = order[o]
      BY <2>6, <3>1 DEF CancelCommit, TypeOK
    <3> QED
      BY <3>2, <1>2
  <2>7. CASE EditCommit(r)
    <3>1. \/ order'[o] = order[o]
          \/ order'[o] = [order[o] EXCEPT !.customer = q.customer]
      BY <2>7 DEF EditCommit, TypeOK
    <3> QED
      BY <3>1, <1>1, <1>2 DEF Row
  <2>8. CASE \/ AutoDispatchPlan(r) \/ AutoDispatchHeld(r) \/ AssignPolicy(r)
             \/ DriverActionPolicy(r) \/ RecordDispatchEvent(r) \/ RecordLoyalty(r)
             \/ Stop(r)
             \/ \E p \in Orders, d \in Drivers, u \in Users, b \in BOOLEAN :
                   AssignRead(r, p, d, u, b)
             \/ \E p \in Orders, u \in Users : UnassignRead(r, p, u)
             \/ \E p \in Orders, d \in Drivers,
                   target \in {"ACCEPTED", "OUT_FOR_DELIVERY", "DELIVERED"} :
                   DriverActionRead(r, p, d, target)
             \/ \E p \in Orders : CancelRead(r, p)
             \/ \E p \in Orders, c \in Customers : EditRead(r, p, c)
    <3>1. order' = order
      BY <2>8 DEF AutoDispatchPlan, AutoDispatchHeld, AssignPolicy, DriverActionPolicy,
         RecordDispatchEvent, RecordLoyalty, Stop, AssignRead, UnassignRead,
         DriverActionRead, CancelRead, EditRead, allButReq
    <3> QED
      BY <3>1, <1>2
  <2> QED
    BY <1>4, <2>1, <2>2, <2>3, <2>4, <2>5, <2>6, <2>7, <2>8 DEF RequestStep
<1>5. ASSUME Environment PROVE Frozen
  <2>1. ASSUME NEW p \in Orders, CreateSyntheticOrder(p) PROVE Frozen
    <3>1. p # o
      BY <2>1 DEF CreateSyntheticOrder, Exists, FinalStatuses
    <3>2. PICK x : order' = [order EXCEPT ![p] = x]
      BY <2>1 DEF CreateSyntheticOrder
    <3> QED
      BY <3>1, <3>2, <1>3
  <2>2. ASSUME NEW p \in Orders, NEW d \in Drivers, ReceiptByDriver(p, d) PROVE Frozen
    <3>1. \/ order' = order
          \/ /\ evaluateOrderStatusTransition("RECEIPT", order[p].status,
                                              "OUT_FOR_DELIVERY", TRUE)
             /\ \E x : order' = [order EXCEPT ![p] = x]
      BY <2>2 DEF ReceiptByDriver
    <3>2. evaluateOrderStatusTransition("RECEIPT", order[p].status,
                                        "OUT_FOR_DELIVERY", TRUE) => p # o
      BY DEF evaluateOrderStatusTransition, FinalStatuses
    <3> QED
      BY <3>1, <3>2, <1>2, <1>3
  <2>3. CASE \/ \E p \in Orders : ReceiptByStaff(p)
             \/ \E d \in Drivers : PresenceChange(d) \/ RevokeAccess(d) \/ RestoreAccess(d)
             \/ updateAutoDispatchSettings
             \/ Tick
    <3>1. order' = order
      BY <2>3 DEF ReceiptByStaff, PresenceChange, RevokeAccess, RestoreAccess,
         updateAutoDispatchSettings, Tick
    <3> QED
      BY <3>1, <1>2
  <2> QED
    BY <1>5, <2>1, <2>2, <2>3 DEF Environment
<1>6. CASE UNCHANGED vars
  BY <1>6, <1>2 DEF vars
<1> QED
  BY <1>4, <1>5, <1>6 DEF Next

\* Once an order is delivered or cancelled no handler in flight moves it, stamps it
\* or takes its driver away, for any number of orders, drivers and requests.
THEOREM FinalRowsStayFrozen == Spec => FinalRowsFrozen
<1>1. TypeOK /\ CoherenceInv /\ RequestInv /\ [Next]_vars =>
        [\A o \in Orders : order[o].status \in FinalStatuses =>
            order'[o] = [order[o] EXCEPT !.customer = order'[o].customer]]_vars
  BY FinalRowNext
<1> QED
  BY <1>1, TypeCorrect, CoherenceInit, CoherenceNext, RequestInit, RequestNext, PTL
     DEF Spec, FinalRowsFrozen

\* A delivered order is credited, about to be credited by exactly one request, or
\* never will be (its request was stopped).
LoyaltyInv ==
    /\ LoyaltyAtMostOnce
    /\ \A r \in Requests : req[r].pc = "loyalty" =>
          order[req[r].order].status = "DELIVERED" /\ credited[req[r].order] = 0
    /\ \A r, s \in Requests :
          req[r].pc = "loyalty" /\ req[s].pc = "loyalty" /\ req[r].order = req[s].order
             => r = s

\* Every step but the winning update and the credit itself leaves the credits alone
\* and starts no call of recordDeliveredOrderLoyalty.
LEMMA LoyaltyUntouched ==
    ASSUME TypeOK, Next,
           \A r \in Requests : ~DriverActionCommit(r) /\ ~RecordLoyalty(r)
    PROVE  /\ credited' = credited
           /\ \A s \in Requests : req'[s].pc = "loyalty" =>
                 req[s].pc = "loyalty" /\ req'[s].order = req[s].order
<1> DEFINE Quiet == /\ credited' = credited
                    /\ \A s \in Requests : req'[s].pc = "loyalty" =>
                          req[s].pc = "loyalty" /\ req'[s].order = req[s].order
<1>1. ASSUME NEW r \in Requests, NEW x, x.pc # "loyalty", credited' = credited,
             req' = [req EXCEPT ![r] = x]
      PROVE  Quiet
  BY <1>1 DEF TypeOK
<1>2. ASSUME NEW r \in Requests, Respond(r), credited' = credited PROVE Quiet
  BY <1>1, <1>2 DEF Respond, Idle
<1>3. ASSUME NEW r \in Requests, NEW pc, pc # "loyalty", credited' = credited,
             req' = [req EXCEPT ![r].pc = pc]
      PROVE  Quiet
  BY <1>3 DEF TypeOK, Request
<1>n. ASSUME NEW r \in Requests, NEW pc, pc # "loyalty", NEW n, credited' = credited,
             req' = [req EXCEPT ![r].pc = pc, ![r].now = n]
      PROVE  Quiet
  BY <1>n DEF TypeOK, Request
<1>d. ASSUME NEW r \in Requests, NEW pc, pc # "loyalty", NEW d, credited' = credited,
             req' = [req EXCEPT ![r].pc = pc, ![r].driver = d]
      PROVE  Quiet
  BY <1>d DEF TypeOK, Request
<1> HIDE DEF Quiet
<1>4. ASSUME NEW r \in Requests, RequestStep(r) PROVE Quiet
  <2>1. ASSUME NEW o \in Orders, NEW c \in Customers, CreateOrder(r, o, c) PROVE Quiet
    BY <2>1, <1>1 DEF CreateOrder, rowsOnly, Idle
  <2>2. CASE AutoDispatchPlan(r)
    <3>1. /\ Respond(r) \/ req' = [req EXCEPT ![r].pc = "allocate"]
          /\ credited' = credited
      BY <2>2 DEF AutoDispatchPlan, allButReq, rowsOnly
    <3> QED
      BY <3>1, <1>2, <1>3
  <2>3. CASE AutoDispatchAllocate(r)
    <3>1. PICK d \in Drivers : req' = [req EXCEPT ![r].pc = "event", ![r].driver = d]
      BY <2>3 DEF AutoDispatchAllocate
    <3>2. credited' = credited
      BY <2>3 DEF AutoDispatchAllocate, rowsOnly
    <3> QED
      BY <3>1, <3>2, <1>d
  <2>4. CASE AutoDispatchHeld(r) \/ Stop(r)
    BY <2>4, <1>2 DEF AutoDispatchHeld, Stop, allButReq, rowsOnly
  <2>5. ASSUME NEW o \in Orders, NEW d \in Drivers, NEW u \in Users, NEW p \in BOOLEAN,
               AssignRead(r, o, d, u, p)
        PROVE  Quiet
    BY <2>5, <1>1 DEF AssignRead, allButReq, rowsOnly, Idle
  <2>6. CASE AssignPolicy(r) \/ DriverActionPolicy(r)
    <3>1. /\ req' = [req EXCEPT ![r].pc = "write", ![r].now = clock]
          /\ credited' = credited
      BY <2>6 DEF AssignPolicy, DriverActionPolicy, allButReq, rowsOnly
    <3> QED
      BY <3>1, <1>n
  <2>7. CASE AssignCommit(r) \/ UnassignCommit(r)
    <3>1. Respond(r) \/ req' = [req EXCEPT ![r].pc = "event"]
      BY <2>7 DEF AssignCommit, UnassignCommit
    <3>2. credited' = credited
      BY <2>7 DEF AssignCommit, UnassignCommit, rowsOnly
    <3> QED
      BY <3>1, <3>2, <1>2, <1>3
  <2>8. ASSUME NEW o \in Orders, NEW u \in Users, UnassignRead(r, o, u) PROVE Quiet
    BY <2>8, <1>1 DEF UnassignRead, allButReq, rowsOnly, Idle
  <2>9. CASE RecordDispatchEvent(r) \/ CancelCommit(r) \/ EditCommit(r)
    BY <2>9, <1>2 DEF RecordDispatchEvent, CancelCommit, EditCommit, rowsOnly
  <2>10. ASSUME NEW o \in Orders, NEW d \in Drivers,
                NEW target \in {"ACCEPTED", "OUT_FOR_DELIVERY", "DELIVERED"},
                DriverActionRead(r, o, d, target)
         PROVE  Quiet
    BY <2>10, <1>1 DEF DriverActionRead, allButReq, rowsOnly, Idle
  <2>11. ASSUME NEW o \in Orders, CancelRead(r, o) PROVE Quiet
    BY <2>11, <1>1 DEF CancelRead, allButReq, rowsOnly, Idle
  <2>12. ASSUME NEW o \in Orders, NEW c \in Customers, EditRead(r, o, c) PROVE Quiet
    BY <2>12, <1>1 DEF EditRead, allButReq, rowsOnly, Idle
  <2> QED
    BY <1>4, <2>1, <2>2, <2>3, <2>4, <2>5, <2>6, <2>7, <2>8, <2>9, <2>10, <2>11, <2>12
       DEF RequestStep
<1>5. ASSUME Environment PROVE Quiet
  BY <1>5 DEF Environment, CreateSyntheticOrder, ReceiptByDriver, ReceiptByStaff,
     PresenceChange, RevokeAccess, RestoreAccess, updateAutoDispatchSettings, Tick, rowsOnly, Quiet
<1> QED
  BY <1>4, <1>5 DEF Next, Quiet

\* The winner of the delivery update starts the only call for the order, and the
\* call is over once it has credited it.
LEMMA LoyaltyNext ==
    TypeOK /\ CoherenceInv /\ RequestInv /\ LoyaltyInv /\ [Next]_vars => LoyaltyInv'
<1> SUFFICES ASSUME TypeOK, CoherenceInv, RequestInv, LoyaltyInv, [Next]_vars
             PROVE  LoyaltyInv'
  OBVIOUS
<1>1. \A o \in Orders : order[o].status = "DELIVERED" => order'[o].status = "DELIVERED"
  <2> SUFFICES ASSUME NEW o \in Orders, order[o].status = "DELIVERED"
               PROVE  order'[o].status = "DELIVERED"
    OBVIOUS
  <2>1. order'[o] = [order[o] EXCEPT !.customer = order'[o].customer]
    BY FinalRowNext DEF FinalStatuses
  <2> QED
    BY <2>1 DEF TypeOK, Row
<1>2. \A r \in Requests : req[r].pc = "loyalty" => req[r].order \in Orders
  BY DEF RequestInv
<1>3. ASSUME NEW r \in Requests, DriverActionCommit(r) PROVE LoyaltyInv'
  <2> DEFINE q == req[r]
             x == [getFirstDispatchAttribution(
                     buildOrderTransitionTimestampData(order[q.order], q.snap,
                                                       q.target, q.now),
                     q.snap, "DRIVER", NoUser) EXCEPT !.status = q.target]
  <2>1. /\ q.order \in Orders /\ order[q.order] \in Row
        /\ order[q.order].status = q.snap.status
        /\ q.pc = "write" /\ q.kind = "action"
        /\ order' = [order EXCEPT ![q.order] = x]
        /\ credited' = credited
    BY <1>3 DEF DriverActionCommit, rowsOnly, RequestInv, TypeOK
  <2>2. order[q.order].status # "DELIVERED"
    <3>1. evaluateOrderStatusTransition("DRIVER_ACTION", q.snap.status, q.target,
                                        receipt[q.order])
      BY <2>1 DEF RequestInv
    <3> QED
      BY <2>1, <3>1 DEF evaluateOrderStatusTransition
  <2>3. x.status = q.target
    BY <2>1, WrittenColumns
  <2>4. order'[q.order].status = q.target
    <3> HIDE DEF x
    <3> QED
      BY <2>1, <2>3 DEF TypeOK
  <2>5. credited[q.order] = 0
    BY <2>1, <2>2 DEF LoyaltyInv, LoyaltyAtMostOnce, TypeOK
  <2>6. \A s \in Requests : req[s].pc = "loyalty" => req[s].order # q.order /\ s # r
    BY <2>1, <2>2 DEF LoyaltyInv
  <2>7. \A s \in Requests : s # r => req'[s] = req[s]
    BY <1>3 DEF DriverActionCommit, Respond, TypeOK
  <2>8. req'[r].pc = "loyalty" => req'[r].order = q.order /\ q.target = "DELIVERED"
    <3>1. \/ Respond(r)
          \/ req' = [req EXCEPT ![r].pc = "loyalty"] /\ q.target = "DELIVERED"
      BY <1>3 DEF DriverActionCommit, Respond
    <3> QED
      BY <3>1 DEF Respond, TypeOK, Idle, Request
  <2>9. LoyaltyAtMostOnce'
    BY <1>1, <2>1 DEF LoyaltyInv, LoyaltyAtMostOnce
  <2> HIDE DEF x
  <2>10. \A s \in Requests : req'[s].pc = "loyalty" =>
            order'[req'[s].order].status = "DELIVERED" /\ credited'[req'[s].order] = 0
    BY <1>1, <1>2, <2>1, <2>4, <2>5, <2>7, <2>8 DEF LoyaltyInv
  <2>11. \A s, t \in Requests :
            req'[s].pc = "loyalty" /\ req'[t].pc = "loyalty" /\ req'[s].order = req'[t].order
               => s = t
    BY <2>6, <2>7, <2>8 DEF LoyaltyInv
  <2> QED
    BY <2>9, <2>10, <2>11 DEF LoyaltyInv
<1>4. ASSUME NEW r \in Requests, RecordLoyalty(r) PROVE LoyaltyInv'
  <2> DEFINE o == req[r].order
  <2>1. /\ req[r].pc = "loyalty" /\ o \in Orders
        /\ order[o].status = "DELIVERED" /\ credited[o] = 0
    BY <1>4, <1>2 DEF RecordLoyalty, LoyaltyInv
  <2>2. /\ credited' = [credited EXCEPT ![o] = 1]
        /\ order' = order
        /\ req' = [req EXCEPT ![r] = Idle]
    BY <1>4, <2>1 DEF RecordLoyalty, Respond
  <2>3. LoyaltyAtMostOnce'
    BY <2>1, <2>2 DEF LoyaltyInv, LoyaltyAtMostOnce, TypeOK
  <2>4. \A s \in Requests : req'[s].pc = "loyalty" =>
           s # r /\ req'[s] = req[s] /\ req[s].order # o
    BY <2>1, <2>2 DEF LoyaltyInv, TypeOK, Idle
  <2>5. \A s \in Requests : req'[s].pc = "loyalty" =>
           order'[req'[s].order].status = "DELIVERED" /\ credited'[req'[s].order] = 0
    BY <1>2, <2>2, <2>4 DEF LoyaltyInv, TypeOK
  <2> QED
    BY <2>3, <2>4, <2>5 DEF LoyaltyInv
<1>5. ASSUME credited' = credited,
             \A s \in Requests : req'[s].pc = "loyalty" =>
                req[s].pc = "loyalty" /\ req'[s].order = req[s].order
      PROVE  LoyaltyInv'
  BY <1>1, <1>2, <1>5 DEF LoyaltyInv, LoyaltyAtMostOnce
<1>6. CASE UNCHANGED vars
  BY <1>5, <1>6 DEF vars
<1> QED
  BY <1>3, <1>4, <1>5, <1>6, LoyaltyUntouched

\* An order is credited for loyalty at most once, and only when delivered, for any
\* number of concurrent DELIVERED requests.
THEOREM LoyaltyOnce == Spec => []LoyaltyAtMostOnce
<1>1. Init => LoyaltyInv
  BY DEF Init, LoyaltyInv, LoyaltyAtMostOnce, Idle
<1>2. LoyaltyInv => LoyaltyAtMostOnce
  BY DEF LoyaltyInv
<1> QED
  BY <1>1, <1>2, TypeCorrect, CoherenceInit, CoherenceNext, RequestInit, RequestNext,
     LoyaltyNext, PTL DEF Spec
=============================================================================
