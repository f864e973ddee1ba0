---------------------------- MODULE OrderEditPause ----------------------------
(***************************************************************************)
(* The pause of the dispatch timer while a dispatcher edits an order:      *)
(* start, heartbeat and stop requests of browser tabs, which the network   *)
(* may lose, delay or reorder. updateOrderEditPause takes the time when it *)
(* is called and then waits for the order's row lock, so a request in      *)
(* flight keeps its now in its slot of Calls; the transaction itself is    *)
(* one action.                                                             *)
(***************************************************************************)
EXTENDS Integers, SequencesExt

CONSTANTS
    Orders, Editors,
    Sessions,           \* session ids drawn by the browsers
    Calls,              \* slots for pause requests in flight
    NoOrder, NoEditor, NoSession,
    EDIT_PAUSE_LEASE_MS,
    MaxTime             \* bound on the wall clock

ASSUME EditPauseAssumption ==
    /\ NoOrder \notin Orders
    /\ NoEditor \notin Editors
    /\ NoSession \notin Sessions
    /\ IsFiniteSet(Sessions)
    /\ EDIT_PAUSE_LEASE_MS \in Nat \ {0}
    /\ MaxTime \in Nat

VARIABLES
    order,      \* [Orders -> what timing reads of an order]
    pause,      \* [Sessions -> OrderEditPause row]
    call,       \* [Calls -> request in flight]
    received,   \* [Sessions -> times at which the server got a start or heartbeat]
    stopped,    \* sessions whose editor was told that its stop is done
    clock

pauseVars == <<order, pause, call, received, stopped, clock>>

-----------------------------------------------------------------------------
OrderRow == [status: {"ABSENT", "PLACED", "DISPATCHED", "CLOSED"},
             createdAt: Nat, dispatchedAt: Nat,
             firstAssigned: Nat,    \* earliest ASSIGNED event in the table
             unrecorded: Nat]       \* time of an ASSIGNED event not yet inserted

AbsentOrder == [status |-> "ABSENT", createdAt |-> 0, dispatchedAt |-> 0,
                firstAssigned |-> 0, unrecorded |-> 0]

Session == [order: Orders \cup {NoOrder}, actor: Editors \cup {NoEditor},
            startedAt: Nat, expiresAt: Nat, endedAt: Nat]

NoRow == [order |-> NoOrder, actor |-> NoEditor,
          startedAt |-> 0, expiresAt |-> 0, endedAt |-> 0]

Call == [pc: {"idle", "locking"}, order: Orders \cup {NoOrder},
         actor: Editors \cup {NoEditor}, session: Sessions \cup {NoSession},
         action: {"none", "start", "heartbeat", "stop"}, now: Nat]

Idle == [pc |-> "idle", order |-> NoOrder, actor |-> NoEditor,
         session |-> NoSession, action |-> "none", now |-> 0]

PauseTypeOK ==
    /\ order \in [Orders -> OrderRow]
    /\ pause \in [Sessions -> Session]
    /\ call \in [Calls -> Call]
    /\ \A s \in Sessions : received[s] \subseteq Nat
    /\ stopped \subseteq Sessions
    /\ clock \in Nat

PauseInit ==
    /\ order = [o \in Orders |-> AbsentOrder]
    /\ pause = [s \in Sessions |-> NoRow]
    /\ call = [k \in Calls |-> Idle]
    /\ received = [s \in Sessions |-> {}]
    /\ stopped = {}
    /\ clock = 1

\* The rows of OrderEditPause for an order.
PausesOf(o) == {[id |-> s, startedAt |-> pause[s].startedAt,
                 expiresAt |-> pause[s].expiresAt, endedAt |-> pause[s].endedAt] :
                    s \in {t \in Sessions : pause[t].order = o}}

-----------------------------------------------------------------------------
(***************************************************************************)
(* What other handlers do to the order; OrderLifecycle has the detail. The *)
(* ASSIGNED event is recorded after the dispatch, and only if that insert  *)
(* succeeds.                                                               *)
(***************************************************************************)

PlaceOrder(o) ==
    /\ order[o].status = "ABSENT"
    /\ order' = [order EXCEPT ![o].status = "PLACED", ![o].createdAt = clock]
    /\ UNCHANGED <<pause, call, received, stopped, clock>>

DispatchOrder(o) ==
    /\ order[o].status = "PLACED"
    /\ order' = [order EXCEPT ![o].status = "DISPATCHED", ![o].dispatchedAt = clock,
                              ![o].unrecorded = clock]
    /\ UNCHANGED <<pause, call, received, stopped, clock>>

RecordAssignedEvent(o) ==
    /\ order[o].unrecorded # 0
    /\ order' = [order EXCEPT ![o].unrecorded = 0,
                              ![o].firstAssigned = Min({@, order[o].unrecorded} \ {0})]
    /\ UNCHANGED <<pause, call, received, stopped, clock>>

UnassignOrder(o) ==
    /\ order[o].status = "DISPATCHED"
    /\ order' = [order EXCEPT ![o].status = "PLACED", ![o].dispatchedAt = 0]
    /\ UNCHANGED <<pause, call, received, stopped, clock>>

CloseOrder(o) ==
    /\ order[o].status \in {"PLACED", "DISPATCHED"}
    /\ order' = [order EXCEPT ![o].status = "CLOSED"]
    /\ UNCHANGED <<pause, call, received, stopped, clock>>

-----------------------------------------------------------------------------
(***************************************************************************)
(* updateOrderEditPause                                                    *)
(***************************************************************************)

\* A request reaches the controller, which takes the time.
PauseRequest(k, o, e, s, a) ==
    /\ call[k].pc = "idle"
    /\ order[o].status # "ABSENT"
    /\ call' = [call EXCEPT ![k] = [pc |-> "locking", order |-> o, actor |-> e,
                                    session |-> s, action |-> a, now |-> clock]]
    /\ received' = IF a = "stop" THEN received
                   ELSE [received EXCEPT ![s] = @ \cup {clock}]
    /\ UNCHANGED <<order, pause, stopped, clock>>

\* PLACED and never dispatched.
Eligible(o) ==
    /\ order[o].status = "PLACED"
    /\ order[o].firstAssigned = 0
    /\ order[o].dispatchedAt = 0

\* The session exists and is the caller's, on this order.
Owned(q) == pause[q.session].order = q.order /\ pause[q.session].actor = q.actor

Missing(q) == pause[q.session].order = NoOrder

Live(q) == pause[q.session].endedAt = 0

Answer(k, s, row) ==
    /\ pause' = [pause EXCEPT ![s] = row]
    /\ call' = [call EXCEPT ![k] = Idle]
    /\ stopped' = IF call[k].action = "stop" THEN stopped \cup {s} ELSE stopped
    /\ UNCHANGED <<order, received, clock>>

\* A stop, or any request once the order is no longer eligible, ends the session
\* no later than its lease.
CloseSession(k) ==
    LET q == call[k]
        row == pause[q.session]
    IN
    /\ q.pc = "locking"
    /\ q.action = "stop" \/ ~Eligible(q.order)
    /\ Owned(q)
    /\ Live(q)
    /\ Answer(k, q.session, [row EXCEPT !.endedAt =
                                Max({row.startedAt, Min({q.now, row.expiresAt})})])

\* A stop that overtook its start leaves a closed session of no duration.
StopBeforeStart(k) ==
    LET q == call[k] IN
    /\ q.pc = "locking"
    /\ q.action = "stop"
    /\ Missing(q)
    /\ Answer(k, q.session, [order |-> q.order, actor |-> q.actor, startedAt |-> q.now,
                             expiresAt |-> q.now, endedAt |-> q.now])

\* The first start opens a session of one lease.
OpenSession(k) ==
    LET q == call[k] IN
    /\ q.pc = "locking"
    /\ q.action = "start"
    /\ Eligible(q.order)
    /\ Missing(q)
    /\ Answer(k, q.session, [order |-> q.order, actor |-> q.actor, startedAt |-> q.now,
                             expiresAt |-> q.now + EDIT_PAUSE_LEASE_MS, endedAt |-> 0])

\* Mutant: a heartbeat revives a session whose lease has run out.
RenewSession_Expired(k) ==
    LET q == call[k]
        row == pause[q.session]
    IN
    /\ q.pc = "locking"
    /\ q.action # "stop"
    /\ Eligible(q.order)
    /\ Owned(q)
    /\ Live(q)
    /\ Answer(k, q.session, [row EXCEPT !.expiresAt =
                                Max({row.expiresAt, q.now + EDIT_PAUSE_LEASE_MS})])

\* Mutant: a closed session is renewed by a request that arrives late.
RenewSession_Closed(k) ==
    LET q == call[k]
        row == pause[q.session]
    IN
    /\ q.pc = "locking"
    /\ q.action # "stop"
    /\ Eligible(q.order)
    /\ Owned(q)
    /\ Answer(k, q.session, [row EXCEPT !.expiresAt = q.now + EDIT_PAUSE_LEASE_MS,
                                        !.endedAt = 0])

\* A start or a heartbeat before the lease runs out extends it.
RenewSession(k) ==
    LET q == call[k]
        row == pause[q.session]
    IN
    /\ q.pc = "locking"
    /\ q.action # "stop"
    /\ Eligible(q.order)
    /\ Owned(q)
    /\ Live(q)
    /\ row.expiresAt > q.now
    /\ Answer(k, q.session, [row EXCEPT !.expiresAt =
                                Max({row.expiresAt, q.now + EDIT_PAUSE_LEASE_MS})])

\* The remaining answers write nothing: another editor's session (403), a
\* heartbeat of no session or of an expired one (409), a repeated stop, a start
\* of a stopped session; or the request is lost.
NoChange(k) ==
    /\ call[k].pc = "locking"
    /\ call' = [call EXCEPT ![k] = Idle]
    /\ UNCHANGED <<order, pause, received, stopped, clock>>

PauseTick ==
    /\ clock < MaxTime
    /\ clock' = clock + 1
    /\ UNCHANGED <<order, pause, call, received, stopped>>

PauseNext ==
    \/ \E o \in Orders : \/ PlaceOrder(o)
                         \/ DispatchOrder(o)
                         \/ RecordAssignedEvent(o)
                         \/ UnassignOrder(o)
                         \/ CloseOrder(o)
    \/ \E k \in Calls :
          \/ \E o \in Orders, e \in Editors, s \in Sessions,
                a \in {"start", "heartbeat", "stop"} : PauseRequest(k, o, e, s, a)
          \/ CloseSession(k)
          \/ StopBeforeStart(k)
          \/ OpenSession(k)
          \/ RenewSession(k)
          \/ NoChange(k)
    \/ PauseTick

PauseSpec == PauseInit /\ [][PauseNext]_pauseVars

-----------------------------------------------------------------------------
(***************************************************************************)
(* How long an order has waited for dispatch, not counting the time its    *)
(* editor was open.  The same duration is computed twice: in TypeScript    *)
(* from the rows of OrderEditPause, and in SQL by                          *)
(* dispatch_edit_pause_duration.  An endedAt of 0 is SQL's NULL.           *)
(***************************************************************************)
\* A pause clipped to the time between creation and the end.
ClippedFrom(p, start) == Max({start, p.startedAt})
ClippedTo(p, end) == Min({end, p.expiresAt, IF p.endedAt = 0 THEN end ELSE p.endedAt})

\* Mutant: overlapping ranges are added up.
editPauseMilliseconds_Sum(pauses, start, end) ==
    MapThenSumSet(LAMBDA p : Max({0, ClippedTo(p, end) - ClippedFrom(p, start)}), pauses)

\* The clipped, filtered and sorted ranges, swept with a cursor.  The result does not
\* depend on which of two that begin together comes first.
editPauseMilliseconds(pauses, start, end) ==
    LET from(p) == ClippedFrom(p, start)
        to(p) == ClippedTo(p, end)
        ranges == CHOOSE r \in SetToSeqs({p \in pauses : to(p) > from(p)}) :
                      \A i, j \in DOMAIN r : i < j => from(r[i]) <= from(r[j])
        sweep(acc, p) == [total |-> acc.total + Max({0, to(p) - Max({acc.cursor, from(p)})}),
                          cursor |-> Max({acc.cursor, to(p)})]
    IN  IF end <= start THEN 0
        ELSE FoldLeft(sweep, [total |-> 0, cursor |-> start], ranges).total

dispatchWaitingMilliseconds(start, end, pauses) ==
    Max({0, end - start - editPauseMilliseconds(pauses, start, end)})

\* The length of the multirange that range_agg builds: the instants covered by
\* some half-open range.
dispatch_edit_pause_duration(pauses, start, end) ==
    Cardinality(UNION {
        LET lower == Max({p.startedAt, start})
            upper == Max({lower, Min({end, p.expiresAt,
                                      IF p.endedAt = 0 THEN end ELSE p.endedAt})})
        IN  lower..(upper - 1) :
        p \in {q \in pauses : q.startedAt < end /\ q.expiresAt > start}})

-----------------------------------------------------------------------------
(***************************************************************************)
(* Properties                                                              *)
(***************************************************************************)

\* Where the credit of a session ends.
CreditEnd(row) == IF row.endedAt = 0 THEN row.expiresAt
                  ELSE Min({row.endedAt, row.expiresAt})

\* "Expired sessions cannot credit the disconnected gap": at every instant that a
\* session takes off an order's waiting time, the server had heard from the
\* editor less than a lease ago, however the requests were delayed, repeated or
\* reordered.
CreditWithinLease ==
    \A s \in Sessions :
        \A t \in pause[s].startedAt..(CreditEnd(pause[s]) - 1) :
            \E n \in received[s] : n <= t /\ t < n + EDIT_PAUSE_LEASE_MS

\* "start/stop races cannot reopen a closed session": once a session is closed, or
\* its editor was told that it is stopped, its row never changes, also when the
\* stop overtook the start.
LeavesClosedAlone ==
    \A s \in Sessions : pause[s].endedAt # 0 \/ s \in stopped => pause'[s] = pause[s]

\* What holds of the sessions in every state and of every step: the two above
\* (orderEditPause.service.ts:15-77).
PausesKept == []CreditWithinLease /\ [][LeavesClosedAlone]_pauseVars

\* The sweep of dispatchTiming.ts and the SQL function that selects alert
\* candidates and feeds the weekly report deduct the same time, overlapping
\* editors counted once, from any table the requests can produce.
TimingsAgree ==
    \A o \in Orders : order[o].status # "ABSENT" =>
        LET pauses == PausesOf(o)
            start == order[o].createdAt
        IN  \A end \in {clock, order[o].dispatchedAt, order[o].firstAssigned} \ {0} :
                editPauseMilliseconds(pauses, start, end) =
                    dispatch_edit_pause_duration(pauses, start, end)

\* The same, looked at while no request is in flight: none matters to the two durations,
\* and each may be lost (dispatchTiming.ts:9-33).
TimingsSound == (\A k \in Calls : call[k] = Idle) => TimingsAgree
=============================================================================
