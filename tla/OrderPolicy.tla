----------------------------- MODULE OrderPolicy -----------------------------
(***************************************************************************)
(* The central order-status policy, shared by every handler that writes an *)
(* order: which actor may move an order between which statuses, which      *)
(* lifecycle timestamps the move fills in, and who is credited with the    *)
(* first dispatch.                                                         *)
(*                                                                         *)
(* A timestamp is a natural number; 0 stands for the SQL NULL, and the     *)
(* wall clock of the modules that use this one starts at 1.                *)
(***************************************************************************)
EXTENDS Naturals

operationalStatuses == {"PLACED", "DISPATCHED", "ACCEPTED", "OUT_FOR_DELIVERY"}

FinalStatuses == {"DELIVERED", "CANCELLED"}

Statuses == operationalStatuses \cup FinalStatuses

\* dispatchSource of an order row; "NONE" is the SQL NULL.
Sources == {"NONE", "AUTO", "MANUAL", "DRIVER"}

(***************************************************************************)
(* evaluateOrderStatusTransition: TRUE where the code answers              *)
(* { allowed: true }; both refusal codes lead every caller to the same     *)
(* early return.                                                           *)
(***************************************************************************)
evaluateOrderStatusTransition(actor, current, target, hasPersistedReceipt) ==
    /\ current \notin FinalStatuses
    /\ current # target
    /\ \/ /\ actor = "STAFF_CANCELLATION"
          /\ target = "CANCELLED"
          /\ current \in operationalStatuses
       \/ /\ actor \in {"AUTO_DISPATCH", "MANUAL_ASSIGNMENT"}
          /\ current = "PLACED"
          /\ target = "DISPATCHED"
       \/ /\ actor = "MANUAL_UNASSIGNMENT"
          /\ current = "DISPATCHED"
          /\ target = "PLACED"
       \/ /\ actor \in {"DRIVER_ACTION", "RECEIPT"}
          /\ current = "ACCEPTED"
          /\ target = "OUT_FOR_DELIVERY"
          /\ hasPersistedReceipt
       \/ /\ actor = "DRIVER_ACTION"
          /\ current \in {"PLACED", "DISPATCHED"}
          /\ target = "ACCEPTED"
       \/ /\ actor = "DRIVER_ACTION"
          /\ current = "OUT_FOR_DELIVERY"
          /\ target = "DELIVERED"
          /\ hasPersistedReceipt

\* The ?? operator on timestamps.
Coalesce(t, u) == IF t = 0 THEN u ELSE t

(***************************************************************************)
(* buildOrderTransitionTimestampData: the timestamp columns written to row *)
(* on a move to target. The values come from snap, the row the handler     *)
(* read before it decided, which need not be the row it now overwrites.    *)
(***************************************************************************)
buildOrderTransitionTimestampData(row, snap, target, now) ==
    LET dispatchedAt ==
            IF target = "DISPATCHED" THEN Coalesce(snap.dispatchedAt, now)
            ELSE IF target \in {"ACCEPTED", "OUT_FOR_DELIVERY", "DELIVERED"}
                 THEN Coalesce(Coalesce(snap.dispatchedAt, snap.assignedAt), now)
                 ELSE row.dispatchedAt
        acceptedAt ==
            IF target \in {"ACCEPTED", "OUT_FOR_DELIVERY", "DELIVERED"}
            THEN Coalesce(snap.acceptedAt, now) ELSE row.acceptedAt
        outForDeliveryAt ==
            IF target \in {"OUT_FOR_DELIVERY", "DELIVERED"}
            THEN Coalesce(snap.outForDeliveryAt, now) ELSE row.outForDeliveryAt
        deliveredAt ==
            IF target = "DELIVERED" THEN Coalesce(snap.deliveredAt, now)
            ELSE row.deliveredAt
    IN  [row EXCEPT !.dispatchedAt = dispatchedAt, !.acceptedAt = acceptedAt,
                    !.outForDeliveryAt = outForDeliveryAt, !.deliveredAt = deliveredAt]

\* getFirstDispatchAttribution: written only when the snapshot had no dispatch.
getFirstDispatchAttribution(row, snap, source, user) ==
    IF snap.dispatchedAt # 0 THEN row
    ELSE [row EXCEPT !.dispatchSource = source, !.dispatchedByUserId = user]
=============================================================================
