-------------------------- MODULE BackgroundProofs --------------------------
(***************************************************************************)
(* Theorems about the edit pauses, the alerts about undispatched orders,   *)
(* the retention messages, the session log and the live board, for any     *)
(* number of orders, editors, sessions, instances of the server, profiles, *)
(* phones, runs, events, pages and requests, and any lease, thresholds and *)
(* times.                                                                  *)
(*                                                                         *)
(* The pauses: a session's row is written only while it is missing or      *)
(* live, and what it credits was covered, when it was written, by the      *)
(* lease of a request that the server had received.  The two computations  *)
(* of the paused time agree: the ranges that the sweep has passed cover    *)
(* what follows up to its cursor, as they all began no later.              *)
(*                                                                         *)
(* The alerts: an e-mail is sent only about an order that was old enough   *)
(* when the check began, and not so old that the provider could have       *)
(* forgotten, by the end of the check, the key of an earlier one.          *)
(*                                                                         *)
(* The messages: a run that has claimed one is the only run between the    *)
(* claim and the send (ClaimsHeld), no submission of that message exists   *)
(* yet, and every submission was claimed (SentClaimed).  A run at its      *)
(* claim holds the row of the phone, so what it read of the last attempt   *)
(* is still true (PhoneHeld).                                              *)
(*                                                                         *)
(* The session log: the buffer is only a set of keys to these proofs; a    *)
(* key leaves it saved or evicted.                                         *)
(*                                                                         *)
(* The live board: only the latest request may replace the board, and it   *)
(* was sent after the board was last replaced, so what the server answers  *)
(* it is not behind the board (Ahead).                                     *)
(***************************************************************************)
EXTENDS Background, RetentionSms, FiniteSetTheorems, SequenceTheorems,
        WellFoundedInduction, TLAPS

\* A request in flight names what exists, and the server has received it.
RequestsNamed ==
    \A k \in Calls : call[k].pc = "locking" =>
        /\ call[k].order \in Orders
        /\ call[k].actor \in Editors
        /\ call[k].session \in Sessions
        /\ call[k].now # 0
        /\ call[k].action # "stop" => call[k].now \in received[call[k].session]

\* A row that exists began at some time, and a stopped session has ended.
RowsBegun ==
    \A s \in Sessions :
        /\ pause[s].order = NoOrder => pause[s] = NoRow
        /\ pause[s].order # NoOrder => pause[s].startedAt # 0
        /\ s \in stopped => pause[s].endedAt # 0

\* Every instant until a session's lease runs out is within the lease of a request.
Heard(s, t) == \E n \in received[s] : n <= t /\ t < n + EDIT_PAUSE_LEASE_MS

LeasesHeard ==
    \A s \in Sessions : \A t \in Nat :
        pause[s].startedAt <= t /\ t < pause[s].expiresAt => Heard(s, t)

PauseInv ==
    /\ PauseTypeOK
    /\ received \in [Sessions -> SUBSET Nat]
    /\ clock # 0
    /\ RequestsNamed
    /\ RowsBegun
    /\ LeasesHeard

-----------------------------------------------------------------------------
\* The later and the earlier of two times.
LEMMA MaxOfTwo ==
    ASSUME NEW a \in Nat, NEW b \in Nat
    PROVE  /\ Max({a, b}) \in {a, b}
           /\ Max({a, b}) >= a /\ Max({a, b}) >= b
<1>1. \E x \in {a, b} : \A y \in {a, b} : x >= y
  <2>1. CASE a >= b
    BY <2>1
  <2>2. CASE b >= a
    BY <2>2
  <2> QED
    BY <2>1, <2>2
<1> QED
  BY <1>1 DEF Max

LEMMA MinOfTwo ==
    ASSUME NEW a \in Nat, NEW b \in Nat
    PROVE  /\ Min({a, b}) \in {a, b}
           /\ Min({a, b}) <= a /\ Min({a, b}) <= b
<1>1. \E x \in {a, b} : \A y \in {a, b} : x <= y
  <2>1. CASE a <= b
    BY <2>1
  <2>2. CASE b <= a
    BY <2>2
  <2> QED
    BY <2>1, <2>2
<1> QED
  BY <1>1 DEF Min

\* The initial states of the pauses.
LEMMA PausesBegin == PauseInit => PauseInv
<1> SUFFICES ASSUME PauseInit PROVE PauseInv
  OBVIOUS
<1>1. AbsentOrder \in OrderRow /\ NoRow \in Session /\ Idle \in Call
  BY DEF AbsentOrder, OrderRow, NoRow, Session, Idle, Call
<1>2. PauseTypeOK
  BY <1>1 DEF PauseInit, PauseTypeOK
<1>3. RequestsNamed
  BY DEF PauseInit, RequestsNamed, Idle
<1>4. RowsBegun
  BY DEF PauseInit, RowsBegun, NoRow
<1>5. LeasesHeard
  BY DEF PauseInit, LeasesHeard, NoRow
<1> QED
  BY <1>2, <1>3, <1>4, <1>5 DEF PauseInit, PauseInv

\* Other handlers write only the order.
LEMMA OrdersMove ==
    ASSUME PauseInv, NEW o \in Orders,
           PlaceOrder(o) \/ DispatchOrder(o) \/ RecordAssignedEvent(o)
             \/ UnassignOrder(o) \/ CloseOrder(o)
    PROVE  PauseInv'
<1>1. order[o] \in OrderRow /\ clock \in Nat
  BY DEF PauseInv, PauseTypeOK
<1>2. UNCHANGED <<pause, call, received, stopped, clock>>
  BY DEF PlaceOrder, DispatchOrder, RecordAssignedEvent, UnassignOrder, CloseOrder
<1>3. order' \in [Orders -> OrderRow]
  <2>1. CASE RecordAssignedEvent(o)
    <3> DEFINE at == Min({order[o].firstAssigned, order[o].unrecorded} \ {0})
    <3>1. /\ order[o].firstAssigned \in Nat /\ order[o].unrecorded \in Nat
          /\ order[o].unrecorded # 0
      BY <1>1, <2>1 DEF OrderRow, RecordAssignedEvent
    <3>2. at \in Nat
      <4>1. CASE order[o].firstAssigned = 0
        <5>1. {order[o].firstAssigned, order[o].unrecorded} \ {0}
                 = {order[o].unrecorded, order[o].unrecorded}
          BY <3>1, <4>1
        <5> QED
          BY <3>1, <5>1, MinOfTwo
      <4>2. CASE order[o].firstAssigned # 0
        <5>1. {order[o].firstAssigned, order[o].unrecorded} \ {0}
                 = {order[o].firstAssigned, order[o].unrecorded}
          BY <3>1, <4>2
        <5> QED
          BY <3>1, <5>1, MinOfTwo
      <4> QED
        BY <4>1, <4>2
    <3>3. order' = [order EXCEPT ![o] = [order[o] EXCEPT !.unrecorded = 0, !.firstAssigned = at]]
      BY <2>1 DEF RecordAssignedEvent, PauseInv, PauseTypeOK, OrderRow
    <3> HIDE DEF at
    <3>4. [order[o] EXCEPT !.unrecorded = 0, !.firstAssigned = at] \in OrderRow
      BY <1>1, <3>2 DEF OrderRow
    <3> QED
      BY <3>3, <3>4 DEF PauseInv, PauseTypeOK
  <2>2. CASE PlaceOrder(o) \/ DispatchOrder(o) \/ UnassignOrder(o) \/ CloseOrder(o)
    BY <2>2, <1>1
    DEF PlaceOrder, DispatchOrder, UnassignOrder, CloseOrder, PauseInv, PauseTypeOK, OrderRow
  <2> QED
    BY <2>1, <2>2
<1>4. PauseTypeOK' /\ (received \in [Sessions -> SUBSET Nat])' /\ (clock # 0)'
  BY <1>2, <1>3 DEF PauseInv, PauseTypeOK
<1>5. RequestsNamed' /\ RowsBegun' /\ LeasesHeard'
  BY <1>2 DEF PauseInv, RequestsNamed, RowsBegun, LeasesHeard, Heard
<1> QED
  BY <1>4, <1>5 DEF PauseInv

\* The server gets a request.
LEMMA RequestReceived ==
    ASSUME PauseInv, NEW k \in Calls, NEW o \in Orders, NEW e \in Editors, NEW s \in Sessions,
           NEW a \in {"start", "heartbeat", "stop"}, PauseRequest(k, o, e, s, a)
    PROVE  PauseInv'
<1> DEFINE q == [pc |-> "locking", order |-> o, actor |-> e, session |-> s, action |-> a,
                 now |-> clock]
<1>1. /\ call' = [call EXCEPT ![k] = q] /\ q \in Call /\ q.pc = "locking" /\ q.order = o
      /\ q.actor = e /\ q.session = s /\ q.action = a /\ q.now = clock
      /\ UNCHANGED <<order, pause, stopped, clock>> /\ clock \in Nat /\ clock # 0
  BY DEF PauseRequest, Call, PauseInv, PauseTypeOK
<1> HIDE DEF q
<1>2. /\ call' \in [Calls -> Call] /\ call'[k] = q
      /\ \A l \in Calls : l # k => call'[l] = call[l]
  BY <1>1 DEF PauseInv, PauseTypeOK
<1>3. /\ received' \in [Sessions -> SUBSET Nat]
      /\ \A r \in Sessions : received[r] \subseteq received'[r]
      /\ a # "stop" => clock \in received'[s]
  BY <1>1 DEF PauseRequest, PauseInv
<1>4. PauseTypeOK' /\ (clock # 0)'
  BY <1>1, <1>2, <1>3 DEF PauseInv, PauseTypeOK
<1>5. RequestsNamed'
  BY <1>1, <1>2, <1>3 DEF PauseInv, RequestsNamed
<1>6. RowsBegun'
  BY <1>1 DEF PauseInv, RowsBegun
<1>7. LeasesHeard'
  BY <1>1, <1>3 DEF PauseInv, LeasesHeard, Heard
<1> QED
  BY <1>3, <1>4, <1>5, <1>6, <1>7 DEF PauseInv

\* A request is answered after it wrote a row that keeps what the invariant says of it.
LEMMA RowAnswered ==
    ASSUME EditPauseAssumption, PauseInv, NEW k \in Calls, call[k].pc = "locking",
           NEW row \in Session, Answer(k, call[k].session, row),
           row.order # NoOrder, row.startedAt # 0,
           call[k].action = "stop" \/ call[k].session \in stopped => row.endedAt # 0,
           \A t \in Nat : row.startedAt <= t /\ t < row.expiresAt => Heard(call[k].session, t)
    PROVE  PauseInv'
<1> DEFINE s == call[k].session
<1>1. s \in Sessions
  BY DEF PauseInv, RequestsNamed
<1>2. /\ pause' = [pause EXCEPT ![s] = row]
      /\ call' = [call EXCEPT ![k] = Idle]
      /\ stopped' = (IF call[k].action = "stop" THEN stopped \cup {s} ELSE stopped)
      /\ UNCHANGED <<order, received, clock>>
  BY DEF Answer
<1>3. Idle \in Call /\ Idle.pc = "idle"
  BY DEF Idle, Call
<1>4. s \in stopped' => row.endedAt # 0
  BY <1>2
<1> HIDE DEF s
<1>5. /\ pause' \in [Sessions -> Session] /\ pause'[s] = row
      /\ \A r \in Sessions : r # s => pause'[r] = pause[r]
  BY <1>1, <1>2 DEF PauseInv, PauseTypeOK
<1>6. /\ call' \in [Calls -> Call]
      /\ \A l \in Calls : call'[l].pc = "locking" => call'[l] = call[l]
  BY <1>2, <1>3 DEF PauseInv, PauseTypeOK
<1>7. \A r \in stopped' : r = s \/ r \in stopped
  BY <1>2
<1>8. PauseTypeOK' /\ (received \in [Sessions -> SUBSET Nat])' /\ (clock # 0)'
  BY <1>1, <1>2, <1>5, <1>6 DEF PauseInv, PauseTypeOK
<1>9. RequestsNamed'
  BY <1>2, <1>6 DEF PauseInv, RequestsNamed
<1>10. RowsBegun'
  BY <1>4, <1>5, <1>7 DEF PauseInv, RowsBegun
<1>11. LeasesHeard'
  BY <1>2, <1>5 DEF PauseInv, LeasesHeard, Heard, s
<1> QED
  BY <1>8, <1>9, <1>10, <1>11 DEF PauseInv

\* What is known of a request and of the row it finds.
LEMMA RequestFinds ==
    ASSUME PauseInv, NEW k \in Calls, call[k].pc = "locking"
    PROVE  /\ call[k] \in Call /\ call[k].session \in Sessions
           /\ call[k].order \in Orders /\ call[k].actor \in Editors
           /\ call[k].now \in Nat /\ call[k].now # 0
           /\ call[k].action # "stop" => call[k].now \in received[call[k].session]
           /\ pause[call[k].session] \in Session
           /\ Missing(call[k]) => pause[call[k].session] = NoRow
           /\ Live(call[k]) \/ Missing(call[k]) => call[k].session \notin stopped
<1>1. call[k] \in Call /\ call[k].session \in Sessions /\ pause[call[k].session] \in Session
  BY DEF PauseInv, PauseTypeOK, RequestsNamed
<1>2. call[k].now \in Nat
  BY <1>1 DEF Call
<1>3. NoRow.endedAt = 0
  BY DEF NoRow
<1> QED
  BY <1>1, <1>2, <1>3 DEF PauseInv, RequestsNamed, RowsBegun, Missing, Live

\* A session that is closed ends within its lease, after it began.
LEMMA SessionClosed ==
    ASSUME EditPauseAssumption, PauseInv, NEW k \in Calls, CloseSession(k)
    PROVE  PauseInv'
<1> DEFINE s == call[k].session
           until == Min({call[k].now, pause[s].expiresAt})
           end == Max({pause[s].startedAt, until})
           row == [pause[s] EXCEPT !.endedAt = end]
<1>1. /\ call[k].pc = "locking" /\ call[k].order \in Orders /\ call[k].now \in Nat
      /\ s \in Sessions /\ pause[s] \in Session /\ pause[s].order = call[k].order
  BY RequestFinds DEF CloseSession, Owned
<1>2. /\ pause[s].startedAt \in Nat /\ pause[s].expiresAt \in Nat
      /\ pause[s].order # NoOrder /\ pause[s].startedAt # 0
  BY <1>1, EditPauseAssumption DEF Session, PauseInv, RowsBegun
<1>3. until \in Nat
  BY <1>1, <1>2, MinOfTwo
<1> HIDE DEF until
<1>4. end \in Nat /\ end # 0
  <2>1. end \in Nat /\ end >= pause[s].startedAt
    BY <1>2, <1>3, MaxOfTwo
  <2> QED
    BY <1>2, <2>1
<1>5. Answer(k, s, row)
  BY DEF CloseSession, until
<1> HIDE DEF end, s
<1>6. /\ row \in Session /\ row.order = pause[s].order /\ row.startedAt = pause[s].startedAt
      /\ row.expiresAt = pause[s].expiresAt /\ row.endedAt = end
  BY <1>1, <1>4 DEF Session
<1>7. \A t \in Nat : row.startedAt <= t /\ t < row.expiresAt => Heard(s, t)
  BY <1>1, <1>6 DEF PauseInv, LeasesHeard
<1> HIDE DEF row
<1> QED
  BY <1>1, <1>2, <1>4, <1>5, <1>6, <1>7, RowAnswered DEF s

\* A session that was stopped before it began credits nothing.
LEMMA SessionNeverBegun ==
    ASSUME EditPauseAssumption, PauseInv, NEW k \in Calls, StopBeforeStart(k)
    PROVE  PauseInv'
<1> DEFINE q == call[k]
           row == [order |-> q.order, actor |-> q.actor, startedAt |-> q.now,
                   expiresAt |-> q.now, endedAt |-> q.now]
<1>1. /\ q.pc = "locking" /\ q.order \in Orders /\ q.actor \in Editors
      /\ q.now \in Nat /\ q.now # 0
  BY RequestFinds DEF StopBeforeStart
<1>2. Answer(k, q.session, row)
  BY DEF StopBeforeStart
<1>3. /\ row \in Session /\ row.order # NoOrder /\ row.startedAt # 0 /\ row.endedAt # 0
  BY <1>1, EditPauseAssumption DEF Session
<1>4. \A t \in Nat : ~(row.startedAt <= t /\ t < row.expiresAt)
  BY <1>1
<1> HIDE DEF row
<1> QED
  BY <1>1, <1>2, <1>3, <1>4, RowAnswered

\* A session that begins is covered by the lease of its own start.
LEMMA SessionOpened ==
    ASSUME EditPauseAssumption, PauseInv, NEW k \in Calls, OpenSession(k)
    PROVE  PauseInv'
<1> DEFINE q == call[k]
           row == [order |-> q.order, actor |-> q.actor, startedAt |-> q.now,
                   expiresAt |-> q.now + EDIT_PAUSE_LEASE_MS, endedAt |-> 0]
<1>1. /\ q.pc = "locking" /\ q.action = "start" /\ q.order \in Orders /\ q.actor \in Editors
      /\ q.now \in Nat /\ q.now # 0 /\ q.now \in received[q.session]
      /\ q.session \notin stopped
  BY RequestFinds DEF OpenSession
<1>2. Answer(k, q.session, row)
  BY DEF OpenSession
<1>3. /\ row \in Session /\ row.order # NoOrder /\ row.startedAt # 0
  BY <1>1, EditPauseAssumption DEF Session
<1>4. \A t \in Nat : row.startedAt <= t /\ t < row.expiresAt => Heard(q.session, t)
  BY <1>1 DEF Heard
<1> HIDE DEF row
<1> QED
  BY <1>1, <1>2, <1>3, <1>4, RowAnswered

\* A lease that is renewed before it ran out leaves no gap.
LEMMA SessionRenewed ==
    ASSUME EditPauseAssumption, PauseInv, NEW k \in Calls, RenewSession(k)
    PROVE  PauseInv'
<1> DEFINE q == call[k]
           s == q.session
           lease == Max({pause[s].expiresAt, q.now + EDIT_PAUSE_LEASE_MS})
           row == [pause[s] EXCEPT !.expiresAt = lease]
<1>1. /\ q.pc = "locking" /\ q.action # "stop" /\ q.order \in Orders
      /\ q.now \in Nat /\ q.now \in received[s]
      /\ s \in Sessions /\ s \notin stopped /\ pause[s] \in Session
      /\ pause[s].order = q.order /\ pause[s].expiresAt > q.now
  BY RequestFinds DEF RenewSession, Owned
<1>2. /\ pause[s].startedAt \in Nat /\ pause[s].expiresAt \in Nat
      /\ pause[s].order # NoOrder /\ pause[s].startedAt # 0
      /\ q.now + EDIT_PAUSE_LEASE_MS \in Nat
  BY <1>1, EditPauseAssumption DEF Session, PauseInv, RowsBegun
<1>3. lease \in Nat /\ (lease = pause[s].expiresAt \/ lease = q.now + EDIT_PAUSE_LEASE_MS)
  BY <1>2, MaxOfTwo
<1>4. Answer(k, s, row)
  BY DEF RenewSession
<1> HIDE DEF lease, s
<1>5. /\ row \in Session /\ row.order = pause[s].order /\ row.startedAt = pause[s].startedAt
      /\ row.expiresAt = lease
  BY <1>1, <1>3 DEF Session
<1>6. ASSUME NEW t \in Nat, row.startedAt <= t, t < row.expiresAt PROVE Heard(s, t)
  <2>1. CASE t < pause[s].expiresAt
    BY <2>1, <1>1, <1>5, <1>6 DEF PauseInv, LeasesHeard
  <2>2. CASE ~(t < pause[s].expiresAt)
    BY <2>2, <1>1, <1>2, <1>3, <1>5, <1>6 DEF Heard
  <2> QED
    BY <2>1, <2>2
<1> HIDE DEF row
<1> QED
  BY <1>1, <1>2, <1>4, <1>5, <1>6, RowAnswered DEF s

\* Every step of the pauses preserves their invariant.
LEMMA PausesGoOn ==
    ASSUME EditPauseAssumption, PauseInv, [PauseNext]_pauseVars
    PROVE  PauseInv'
<1>1. ASSUME NEW k \in Calls, NoChange(k) PROVE PauseInv'
  <2>1. Idle \in Call /\ Idle.pc = "idle"
    BY DEF Idle, Call
  <2>2. /\ call' \in [Calls -> Call]
        /\ \A l \in Calls : call'[l].pc = "locking" => call'[l] = call[l]
    BY <1>1, <2>1 DEF NoChange, PauseInv, PauseTypeOK
  <2> QED
    BY <1>1, <2>2
    DEF NoChange, PauseInv, PauseTypeOK, RequestsNamed, RowsBegun, LeasesHeard, Heard
<1>2. CASE PauseTick
  BY <1>2
  DEF PauseTick, PauseInv, PauseTypeOK, RequestsNamed, RowsBegun, LeasesHeard, Heard
<1>3. CASE UNCHANGED pauseVars
  BY <1>3
  DEF pauseVars, PauseInv, PauseTypeOK, RequestsNamed, RowsBegun, LeasesHeard, Heard
<1> QED
  BY <1>1, <1>2, <1>3, OrdersMove, RequestReceived, SessionClosed, SessionNeverBegun,
     SessionOpened, SessionRenewed DEF PauseNext

\* What a session credits ends within its lease.
LEMMA CreditCovered == PauseInv => CreditWithinLease
<1> SUFFICES ASSUME PauseInv, NEW s \in Sessions,
                    NEW t \in pause[s].startedAt .. (CreditEnd(pause[s]) - 1)
             PROVE  Heard(s, t)
  BY DEF CreditWithinLease, Heard
<1>1. /\ pause[s].startedAt \in Nat /\ pause[s].expiresAt \in Nat /\ pause[s].endedAt \in Nat
  BY DEF PauseInv, PauseTypeOK, Session
<1>2. CreditEnd(pause[s]) \in Nat /\ CreditEnd(pause[s]) <= pause[s].expiresAt
  BY <1>1, MinOfTwo DEF CreditEnd
<1>3. t \in Nat /\ pause[s].startedAt <= t /\ t < pause[s].expiresAt
  BY <1>1, <1>2
<1> QED
  BY <1>3 DEF PauseInv, LeasesHeard

\* A row is written only while its session is missing or live.
LEMMA ClosedRowsStay ==
    ASSUME PauseInv, PauseNext
    PROVE  LeavesClosedAlone
<1> SUFFICES ASSUME NEW s \in Sessions, pause[s].endedAt # 0 \/ s \in stopped
             PROVE  pause'[s] = pause[s]
  BY DEF LeavesClosedAlone
<1>1. pause[s].endedAt # 0 /\ pause \in [Sessions -> Session]
  BY DEF PauseInv, PauseTypeOK, RowsBegun
<1>2. ASSUME NEW k \in Calls,
             CloseSession(k) \/ StopBeforeStart(k) \/ OpenSession(k) \/ RenewSession(k)
      PROVE  pause'[s] = pause[s]
  <2>1. PICK row : Answer(k, call[k].session, row)
    BY <1>2 DEF CloseSession, StopBeforeStart, OpenSession, RenewSession
  <2>2. Missing(call[k]) \/ Live(call[k])
    BY <1>2 DEF CloseSession, StopBeforeStart, OpenSession, RenewSession
  <2>3. call[k].pc = "locking"
    BY <1>2 DEF CloseSession, StopBeforeStart, OpenSession, RenewSession
  <2>4. NoRow.endedAt = 0
    BY DEF NoRow
  <2>5. call[k].session # s
    BY <1>1, <2>2, <2>3, <2>4, RequestFinds DEF Live
  <2> QED
    BY <1>1, <2>1, <2>5 DEF Answer
<1> QED
  BY <1>2 DEF PauseNext, PlaceOrder, DispatchOrder, RecordAssignedEvent, UnassignOrder,
              CloseOrder, PauseRequest, NoChange, PauseTick

\* For any lease and however the requests are delayed, repeated or reordered: "expired
\* sessions cannot credit the disconnected gap" and "start/stop races cannot reopen a
\* closed session" (orderEditPause.service.ts:15-77).
THEOREM PausesAreKept == PauseSpec => PausesKept
<1>1. PauseInv /\ [PauseNext]_pauseVars => PauseInv'
  BY PausesGoOn, EditPauseAssumption
<1>2. PauseInv /\ [PauseNext]_pauseVars => [LeavesClosedAlone]_pauseVars
  BY ClosedRowsStay
<1> QED
  BY <1>1, <1>2, PausesBegin, CreditCovered, PTL DEF PauseSpec, PausesKept

-----------------------------------------------------------------------------
\* The least and the greatest of a set of times.
LEMMA LeastExists ==
    ASSUME NEW S, S \subseteq Nat, S # {}
    PROVE  \E n \in S : \A m \in S : n <= m
<1>1. IsWellFoundedOn(OpToRel(<, Nat), Nat)
  BY NatLessThanWellFounded
<1>2. PICK n \in S : \A m \in S : ~(<<m, n>> \in OpToRel(<, Nat))
  BY <1>1, WFMin
<1>3. ASSUME NEW m \in S PROVE n <= m
  <2>1. ~(m < n)
    BY <1>2 DEF OpToRel
  <2> QED
    BY <2>1
<1> QED
  BY <1>3

LEMMA GreatestExists ==
    ASSUME NEW S, S \subseteq Nat, S # {}, NEW b \in Nat, \A x \in S : x <= b
    PROVE  Max(S) \in S /\ \A x \in S : x <= Max(S)
<1> DEFINE below == {b - x : x \in S}
<1>1. below \subseteq Nat /\ below # {}
  <2>1. ASSUME NEW x \in S PROVE b - x \in Nat
    <3>1. x \in Nat /\ x <= b
      OBVIOUS
    <3> QED
      BY <3>1
  <2> QED
    BY <2>1
<1>2. PICK d \in below : \A e \in below : d <= e
  BY <1>1, LeastExists
<1>3. PICK x \in S : d = b - x
  OBVIOUS
<1>4. \A y \in S : x >= y
  <2> SUFFICES ASSUME NEW y \in S PROVE x >= y
    OBVIOUS
  <2>1. b - x <= b - y
    BY <1>2, <1>3
  <2>2. x \in Nat /\ y \in Nat
    OBVIOUS
  <2> QED
    BY <2>1, <2>2
<1>5. \E z \in S : \A y \in S : z >= y
  BY <1>4
<1>6. Max(S) \in S /\ \A y \in S : Max(S) >= y
  BY <1>5 DEF Max
<1> QED
  BY <1>6

LEMMA LeastOfThree ==
    ASSUME NEW a \in Nat, NEW b \in Nat, NEW c \in Nat
    PROVE  /\ Min({a, b, c}) \in {a, b, c}
           /\ Min({a, b, c}) <= a /\ Min({a, b, c}) <= b /\ Min({a, b, c}) <= c
<1>1. PICK x \in {a, b, c} : \A y \in {a, b, c} : x <= y
  BY LeastExists
<1> QED
  BY <1>1 DEF Min

-----------------------------------------------------------------------------
\* A finite set has a list of its members in the order of their values.
Sorted(T, key, r) ==
    r \in SetToSeqs(T) /\ \A i, j \in DOMAIN r : i < j => key[r[i]] <= key[r[j]]

LEMMA SortedListExists ==
    ASSUME NEW S, IsFiniteSet(S), NEW key \in [S -> Nat],
           NEW b \in Nat, \A x \in S : key[x] <= b
    PROVE  \E r : Sorted(S, key, r)
<1> DEFINE bad == {k \in Nat : \E T \in SUBSET S :
                       Cardinality(T) = k /\ ~\E r : Sorted(T, key, r)}
<1>1. \A T \in SUBSET S : IsFiniteSet(T) /\ Cardinality(T) \in Nat
  BY FS_Subset, FS_CardinalityType
<1>2. bad = {}
  <2> SUFFICES ASSUME bad # {} PROVE FALSE
    OBVIOUS
  <2>1. PICK k \in bad : \A m \in bad : k <= m
    BY LeastExists
  <2>2. PICK T \in SUBSET S : Cardinality(T) = k /\ ~\E r : Sorted(T, key, r)
    OBVIOUS
  <2>3. k \in Nat /\ IsFiniteSet(T)
    BY <1>1, <2>2
  <2>4. T # {}
    <3> SUFFICES ASSUME T = {} PROVE FALSE
      OBVIOUS
    <3> DEFINE none == [i \in 1..0 |-> 0]
    <3>1. Cardinality(T) = 0
      BY FS_EmptySet
    <3>2. none \in SetToSeqs(T)
      BY <3>1 DEF SetToSeqs
    <3>3. Sorted(T, key, none)
      BY <3>2 DEF Sorted
    <3> QED
      BY <2>2, <3>3
  <2>5. PICK t \in T : \A x \in T : key[x] <= key[t]
    <3> DEFINE values == {key[x] : x \in T}
    <3>1. values \subseteq Nat /\ values # {} /\ \A v \in values : v <= b
      BY <2>4
    <3>2. Max(values) \in values /\ \A v \in values : v <= Max(values)
      BY <3>1, GreatestExists
    <3> QED
      BY <3>2
  <2>6. /\ T \ {t} \in SUBSET S
        /\ Cardinality(T \ {t}) = k - 1 /\ k - 1 \in Nat
    <3>1. Cardinality(T) # 0
      BY <2>3, <2>4, FS_EmptySet
    <3>2. T \ {t} \in SUBSET S
      OBVIOUS
    <3>3. Cardinality(T \ {t}) = Cardinality(T) - 1
      BY <2>3, FS_RemoveElement
    <3> QED
      BY <2>2, <2>3, <3>1, <3>2, <3>3
  <2>7. PICK r : Sorted(T \ {t}, key, r)
    <3>1. k - 1 \notin bad
      BY <2>1, <2>3
    <3> QED
      BY <2>6, <3>1
  <2>8. /\ r \in [1 .. k - 1 -> T \ {t}]
        /\ \A i, j \in 1 .. k - 1 : i # j => r[i] # r[j]
    BY <2>6, <2>7 DEF Sorted, SetToSeqs
  <2> DEFINE longer == [i \in 1 .. k |-> IF i = k THEN t ELSE r[i]]
  <2>9. longer \in SetToSeqs(T)
    <3>1. longer \in [1 .. k -> T]
      BY <2>3, <2>8
    <3>2. \A i, j \in 1 .. k : i # j => longer[i] # longer[j]
      <4> SUFFICES ASSUME NEW i \in 1 .. k, NEW j \in 1 .. k, i # j
                   PROVE  longer[i] # longer[j]
        OBVIOUS
      <4>1. CASE i = k
        BY <2>3, <2>8, <4>1
      <4>2. CASE j = k
        BY <2>3, <2>8, <4>2
      <4>3. CASE i # k /\ j # k
        BY <2>3, <2>8, <4>3
      <4> QED
        BY <4>1, <4>2, <4>3
    <3> HIDE DEF longer
    <3> QED
      BY <2>2, <3>1, <3>2 DEF SetToSeqs
  <2>10. \A i, j \in DOMAIN longer : i < j => key[longer[i]] <= key[longer[j]]
    <3> SUFFICES ASSUME NEW i \in 1 .. k, NEW j \in 1 .. k, i < j
                 PROVE  key[longer[i]] <= key[longer[j]]
      OBVIOUS
    <3>1. i \in 1 .. k - 1 /\ longer[i] = r[i] /\ r[i] \in T
      BY <2>3, <2>8
    <3>2. CASE j = k
      BY <2>5, <3>1, <3>2
    <3>3. CASE j # k
      BY <2>3, <2>7, <2>8, <3>1, <3>3 DEF Sorted
    <3> QED
      BY <3>2, <3>3
  <2> HIDE DEF longer
  <2> QED
    BY <2>2, <2>9, <2>10 DEF Sorted
<1> QED
  BY <1>1, <1>2

LEMMA ListHasAll ==
    ASSUME NEW S, IsFiniteSet(S), NEW r \in SetToSeqs(S)
    PROVE  /\ Cardinality(S) \in Nat /\ r \in [1 .. Cardinality(S) -> S]
           /\ \A x \in S : \E i \in 1 .. Cardinality(S) : r[i] = x
<1> DEFINE n == Cardinality(S)
<1>1. n \in Nat
  BY FS_CardinalityType
<1>2. r \in [1 .. n -> S] /\ \A i, j \in 1 .. n : i # j => r[i] # r[j]
  BY DEF SetToSeqs
<1>3. r \in Injection(1 .. n, S)
  BY <1>2 DEF Injection, IsInjective
<1>4. Cardinality(1 .. n) = n
  BY <1>1, FS_Interval
<1>5. r \in Surjection(1 .. n, S)
  BY <1>3, <1>4, FS_Injection
<1> QED
  BY <1>1, <1>2, <1>5 DEF Surjection

-----------------------------------------------------------------------------
\* The moments that some of the listed ranges cover, and where the last of them ends.
Covered(r, start, end, s) ==
    UNION {ClippedFrom(r[i], start) .. ClippedTo(r[i], end) - 1 : i \in s}
Ends(r, start, end, s) == {start} \cup {ClippedTo(r[i], end) : i \in s}

\* What the sweep holds after the ranges of s.
Swept(r, start, end, s) == [total |-> Cardinality(Covered(r, start, end, s)),
                            cursor |-> Max(Ends(r, start, end, s))]

\* What the sweep makes of the next range.
Stepped(acc, p, start, end) ==
    [total |-> acc.total + Max({0, ClippedTo(p, end) - Max({acc.cursor, ClippedFrom(p, start)})}),
     cursor |-> Max({acc.cursor, ClippedTo(p, end)})]

\* A list of ranges within the two times, in the order of their beginnings.
Ranges(r, n, start, end) ==
    /\ DOMAIN r = 1 .. n
    /\ \A i \in 1 .. n :
          /\ ClippedFrom(r[i], start) \in Nat /\ ClippedTo(r[i], end) \in Nat
          /\ start <= ClippedFrom(r[i], start)
          /\ ClippedFrom(r[i], start) < ClippedTo(r[i], end)
          /\ ClippedTo(r[i], end) <= end
    /\ \A i, j \in 1 .. n : i < j => ClippedFrom(r[i], start) <= ClippedFrom(r[j], start)

LEMMA LastOfSome ==
    ASSUME NEW n \in Nat, NEW s \in SUBSET (1 .. n), s # {}
    PROVE  Max(s) \in s /\ \A i \in s : i <= Max(s)
<1>1. s \subseteq Nat /\ \A i \in s : i <= n
  OBVIOUS
<1> QED
  BY <1>1, GreatestExists

LEMMA SweptIsNumbers ==
    ASSUME NEW start \in Nat, NEW end \in Nat, start < end, NEW n \in Nat, NEW r,
           Ranges(r, n, start, end), NEW s \in SUBSET (1 .. n)
    PROVE  /\ IsFiniteSet(Covered(r, start, end, s))
           /\ Cardinality(Covered(r, start, end, s)) \in Nat
           /\ Max(Ends(r, start, end, s)) \in Nat
           /\ Max(Ends(r, start, end, s)) \in Ends(r, start, end, s)
           /\ \A v \in Ends(r, start, end, s) : v <= Max(Ends(r, start, end, s))
<1>1. \A i \in s : /\ ClippedFrom(r[i], start) \in Nat /\ ClippedTo(r[i], end) \in Nat
                   /\ start <= ClippedFrom(r[i], start)
                   /\ ClippedFrom(r[i], start) < ClippedTo(r[i], end)
                   /\ ClippedTo(r[i], end) <= end
  BY DEF Ranges
<1>2. Covered(r, start, end, s) \subseteq start .. end
  BY <1>1 DEF Covered
<1>3. IsFiniteSet(Covered(r, start, end, s))
  <2>1. IsFiniteSet(start .. end)
    BY FS_Interval
  <2> QED
    BY <1>2, <2>1, FS_Subset
<1>4. /\ Ends(r, start, end, s) \subseteq Nat /\ Ends(r, start, end, s) # {}
      /\ \A v \in Ends(r, start, end, s) : v <= end
  BY <1>1 DEF Ends
<1>5. /\ Max(Ends(r, start, end, s)) \in Ends(r, start, end, s)
      /\ \A v \in Ends(r, start, end, s) : v <= Max(Ends(r, start, end, s))
  BY <1>4, GreatestExists
<1> QED
  BY <1>3, <1>4, <1>5, FS_CardinalityType

\* One step of the sweep adds what its range covers beyond the ranges before it: they
\* all began no later, so they cover it up to the cursor.
LEMMA SweepsOn ==
    ASSUME NEW start \in Nat, NEW end \in Nat, start < end, NEW n \in Nat, NEW r,
           Ranges(r, n, start, end), NEW s \in SUBSET (1 .. n), s # {}
    PROVE  Swept(r, start, end, s)
               = Stepped(Swept(r, start, end, s \ {Max(s)}), r[Max(s)], start, end)
<1> DEFINE m == Max(s)
           others == s \ {m}
           before == Covered(r, start, end, others)
           cursor == Max(Ends(r, start, end, others))
           from == ClippedFrom(r[m], start)
           to == ClippedTo(r[m], end)
           lower == Max({cursor, from})
           added == lower .. to - 1
<1>1. m \in s /\ m \in 1 .. n /\ \A i \in others : i \in 1 .. n /\ i < m
  <2>1. m \in s /\ \A i \in s : i <= m
    BY LastOfSome
  <2>2. \A i \in others : i \in 1 .. n /\ i <= m /\ i # m
    BY <2>1
  <2>3. m \in 1 .. n
    BY <2>1
  <2> HIDE DEF m
  <2> QED
    BY <2>1, <2>2, <2>3
<1>2. /\ from \in Nat /\ to \in Nat /\ start <= from /\ from < to /\ to <= end
      /\ \A i \in others : /\ ClippedFrom(r[i], start) \in Nat /\ ClippedTo(r[i], end) \in Nat
                           /\ start <= ClippedFrom(r[i], start)
                           /\ ClippedFrom(r[i], start) <= from
  <2>1. m \in 1 .. n /\ \A i \in others : i \in 1 .. n /\ i < m
    BY <1>1
  <2> HIDE DEF m, others
  <2> QED
    BY <2>1 DEF Ranges
<1>3. others \in SUBSET (1 .. n)
  OBVIOUS
<1>4. /\ IsFiniteSet(before) /\ Cardinality(before) \in Nat /\ cursor \in Nat
      /\ cursor \in Ends(r, start, end, others)
      /\ \A v \in Ends(r, start, end, others) : v <= cursor
  BY <1>3, SweptIsNumbers
<1>5. s = others \cup {m}
  BY <1>1
<1> HIDE DEF m, others
<1>6. lower \in {cursor, from} /\ lower >= cursor /\ lower >= from /\ lower \in Nat
  BY <1>2, <1>4, MaxOfTwo
<1>7. \A t \in before : t < cursor /\ t \in Nat
  <2> SUFFICES ASSUME NEW t \in before PROVE t < cursor /\ t \in Nat
    OBVIOUS
  <2>1. PICK i \in others : t \in ClippedFrom(r[i], start) .. ClippedTo(r[i], end) - 1
    BY DEF Covered
  <2>2. ClippedTo(r[i], end) <= cursor
    BY <1>4 DEF Ends
  <2> QED
    BY <1>2, <1>4, <2>1, <2>2
<1>8. \A t \in Nat : from <= t /\ t < cursor => t \in before
  <2> SUFFICES ASSUME NEW t \in Nat, from <= t, t < cursor PROVE t \in before
    OBVIOUS
  <2>1. cursor # start
    BY <1>2, <1>4
  <2>2. PICK i \in others : cursor = ClippedTo(r[i], end)
    BY <1>4, <2>1 DEF Ends
  <2>3. t \in ClippedFrom(r[i], start) .. ClippedTo(r[i], end) - 1
    BY <1>2, <2>2
  <2> QED
    BY <2>3 DEF Covered
<1>9. Covered(r, start, end, s) = before \cup (from .. to - 1)
  BY <1>5 DEF Covered
<1> HIDE DEF before, cursor, from, to, lower
<1>10. before \cup (from .. to - 1) = before \cup added
  <2>1. ASSUME NEW t \in from .. to - 1 PROVE t \in before \cup added
    <3>1. t \in Nat /\ from <= t /\ t <= to - 1
      BY <1>2
    <3>2. CASE t < cursor
      BY <1>8, <3>1, <3>2
    <3>3. CASE ~(t < cursor)
      BY <1>2, <1>4, <1>6, <3>1, <3>3
    <3> QED
      BY <3>2, <3>3
  <2>2. ASSUME NEW t \in added PROVE t \in from .. to - 1
    BY <1>2, <1>6
  <2> QED
    BY <2>1, <2>2
<1>11. before \cap added = {}
  BY <1>4, <1>6, <1>7
<1>12. IsFiniteSet(added) /\ Cardinality(added) = Max({0, to - lower})
  <2>1. IsFiniteSet(added) /\ Cardinality(added) = IF lower > to - 1 THEN 0 ELSE to - 1 - lower + 1
    <3>1. lower \in Int /\ to - 1 \in Int
      BY <1>2, <1>6
    <3> QED
      BY <3>1, FS_Interval
  <2>2. CASE lower >= to
    <3>1. \E x \in {0, to - lower} : \A y \in {0, to - lower} : x >= y
      BY <1>2, <1>6, <2>2
    <3>2. Max({0, to - lower}) = 0
      BY <1>2, <1>6, <2>2, <3>1 DEF Max
    <3> QED
      BY <1>2, <1>6, <2>1, <2>2, <3>2
  <2>3. CASE ~(lower >= to)
    <3>1. to - lower \in Nat /\ to - lower > 0
      BY <1>2, <1>6, <2>3
    <3>2. Max({0, to - lower}) = to - lower
      BY <3>1, MaxOfTwo
    <3> QED
      BY <1>2, <1>6, <2>1, <2>3, <3>2
  <2> QED
    BY <2>2, <2>3
<1> HIDE DEF added
<1>13. Cardinality(before \cup added) = Cardinality(before) + Cardinality(added)
  <2>1. Cardinality(before \cup added)
          = Cardinality(before) + Cardinality(added) - Cardinality(before \cap added)
    BY <1>4, <1>12, FS_Union
  <2>2. Cardinality(before \cap added) = 0
    BY <1>11, FS_EmptySet
  <2>3. Cardinality(before) \in Nat /\ Cardinality(added) \in Nat
    BY <1>4, <1>12, FS_CardinalityType
  <2> QED
    BY <2>1, <2>2, <2>3
<1>14. Max(Ends(r, start, end, s)) = Max({cursor, to})
  <2>1. /\ Max({cursor, to}) \in {cursor, to}
        /\ Max({cursor, to}) >= cursor /\ Max({cursor, to}) >= to /\ Max({cursor, to}) \in Nat
    BY <1>2, <1>4, MaxOfTwo
  <2>2. Ends(r, start, end, s) = Ends(r, start, end, others) \cup {to}
    BY <1>5 DEF Ends, to
  <2>3. /\ Max(Ends(r, start, end, s)) \in Ends(r, start, end, s)
        /\ \A v \in Ends(r, start, end, s) : v <= Max(Ends(r, start, end, s))
        /\ Max(Ends(r, start, end, s)) \in Nat
    BY SweptIsNumbers
  <2> DEFINE last == Max(Ends(r, start, end, s))
  <2>4. last = to \/ last <= cursor
    BY <1>4, <2>2, <2>3 DEF cursor
  <2>5. cursor <= last /\ to <= last
    BY <1>4, <2>2, <2>3
  <2> HIDE DEF last
  <2>6. last \in Nat
    BY <2>3 DEF last
  <2> QED
    BY <1>2, <1>4, <2>1, <2>4, <2>5, <2>6 DEF last
<1>15. /\ Swept(r, start, end, others) = [total |-> Cardinality(before), cursor |-> cursor]
       /\ Swept(r, start, end, s) = [total |-> Cardinality(before) + Max({0, to - lower}),
                                     cursor |-> Max({cursor, to})]
  BY <1>9, <1>10, <1>12, <1>13, <1>14 DEF Swept, before, cursor
<1> QED
  BY <1>15 DEF Stepped, m, others, before, cursor, from, to, lower

\* The function a fold over the ranges is the last value of.
FoldOf(f, r, n, start, end) ==
    f = [s \in SUBSET (1 .. n) |->
            IF s = {} THEN [total |-> 0, cursor |-> start]
            ELSE Stepped(f[s \ {Max(s)}], r[Max(s)], start, end)]

\* There is one, and Swept is what it holds: of two that differ, take the least set of
\* ranges on which they do.
LEMMA FoldSweeps ==
    ASSUME NEW start \in Nat, NEW end \in Nat, start < end, NEW n \in Nat, NEW r,
           Ranges(r, n, start, end)
    PROVE  /\ \E f : FoldOf(f, r, n, start, end)
           /\ \A f : FoldOf(f, r, n, start, end) => f[1 .. n] = Swept(r, start, end, 1 .. n)
<1> DEFINE base == [total |-> 0, cursor |-> start]
           next(f, s) == IF s = {} THEN base
                         ELSE Stepped(f[s \ {Max(s)}], r[Max(s)], start, end)
           swept == [s \in SUBSET (1 .. n) |-> Swept(r, start, end, s)]
<1>1. FoldOf(swept, r, n, start, end)
  <2> SUFFICES ASSUME NEW s \in SUBSET (1 .. n)
               PROVE  Swept(r, start, end, s) = next(swept, s)
    BY DEF FoldOf
  <2>1. CASE s = {}
    <3>1. Covered(r, start, end, s) = {} /\ Ends(r, start, end, s) = {start}
      BY <2>1 DEF Covered, Ends
    <3>2. Max({start}) = start
      BY DEF Max
    <3> QED
      BY <2>1, <3>1, <3>2, FS_EmptySet DEF Swept
  <2>2. CASE s # {}
    <3>1. s \ {Max(s)} \in SUBSET (1 .. n)
      OBVIOUS
    <3>2. swept[s \ {Max(s)}] = Swept(r, start, end, s \ {Max(s)})
      BY <3>1
    <3>3. Swept(r, start, end, s)
              = Stepped(Swept(r, start, end, s \ {Max(s)}), r[Max(s)], start, end)
      BY <2>2, SweepsOn
    <3> QED
      BY <2>2, <3>2, <3>3
  <2> QED
    BY <2>1, <2>2
<1>2. ASSUME NEW f, FoldOf(f, r, n, start, end)
      PROVE  f[1 .. n] = Swept(r, start, end, 1 .. n)
  <2> DEFINE bad == {k \in Nat : \E s \in SUBSET (1 .. n) :
                         Cardinality(s) = k /\ f[s] # swept[s]}
  <2>1. \A s \in SUBSET (1 .. n) : f[s] = next(f, s) /\ swept[s] = next(swept, s)
    BY <1>1, <1>2 DEF FoldOf
  <2>2. \A s \in SUBSET (1 .. n) : IsFiniteSet(s) /\ Cardinality(s) \in Nat
    <3>1. IsFiniteSet(1 .. n)
      BY FS_Interval
    <3> QED
      BY <3>1, FS_Subset, FS_CardinalityType
  <2> HIDE DEF swept, base
  <2>3. bad = {}
    <3> SUFFICES ASSUME bad # {} PROVE FALSE
      OBVIOUS
    <3>1. PICK k \in bad : \A j \in bad : k <= j
      BY LeastExists
    <3>2. PICK s \in SUBSET (1 .. n) : Cardinality(s) = k /\ f[s] # swept[s]
      OBVIOUS
    <3>3. s # {}
      BY <2>1, <3>2
    <3>4. Max(s) \in s
      BY <3>3, LastOfSome
    <3>5. Cardinality(s \ {Max(s)}) = k - 1
      BY <2>2, <3>2, <3>4, FS_RemoveElement
    <3>6. k # 0 /\ k \in Nat
      BY <2>2, <3>2, <3>3, FS_EmptySet
    <3>7. s \ {Max(s)} \in SUBSET (1 .. n)
      OBVIOUS
    <3>8. f[s \ {Max(s)}] = swept[s \ {Max(s)}]
      <4>1. k - 1 \notin bad /\ k - 1 \in Nat
        BY <3>1, <3>6
      <4> QED
        BY <3>5, <3>7, <4>1
    <3> QED
      BY <2>1, <3>2, <3>3, <3>8
  <2>4. 1 .. n \in SUBSET (1 .. n)
    OBVIOUS
  <2>5. f[1 .. n] = swept[1 .. n]
    BY <2>2, <2>3, <2>4
  <2> QED
    BY <2>4, <2>5 DEF swept
<1> QED
  BY <1>1, <1>2

-----------------------------------------------------------------------------
\* The two durations agree of any finite table.
PauseRow(p) == p.startedAt \in Nat /\ p.expiresAt \in Nat /\ p.endedAt \in Nat

LEMMA ClippedWithin ==
    ASSUME NEW start \in Nat, NEW end \in Nat, NEW p, PauseRow(p)
    PROVE  /\ ClippedFrom(p, start) \in Nat /\ ClippedTo(p, end) \in Nat
           /\ start <= ClippedFrom(p, start) /\ p.startedAt <= ClippedFrom(p, start)
           /\ ClippedFrom(p, start) \in {start, p.startedAt}
           /\ ClippedTo(p, end) <= end /\ ClippedTo(p, end) <= p.expiresAt
<1> DEFINE over == IF p.endedAt = 0 THEN end ELSE p.endedAt
<1>1. over \in Nat /\ p.startedAt \in Nat /\ p.expiresAt \in Nat
  BY DEF PauseRow
<1>2. /\ Max({start, p.startedAt}) \in {start, p.startedAt}
      /\ Max({start, p.startedAt}) >= start /\ Max({start, p.startedAt}) >= p.startedAt
  BY <1>1, MaxOfTwo
<1> HIDE DEF over
<1>3. /\ Min({end, p.expiresAt, over}) \in {end, p.expiresAt, over}
      /\ Min({end, p.expiresAt, over}) <= end /\ Min({end, p.expiresAt, over}) <= p.expiresAt
  BY <1>1, LeastOfThree
<1> QED
  BY <1>1, <1>2, <1>3 DEF ClippedFrom, ClippedTo, over

LEMMA SameDurations ==
    ASSUME NEW start \in Nat, NEW end \in Nat, NEW pauses, IsFiniteSet(pauses),
           \A p \in pauses : PauseRow(p)
    PROVE  editPauseMilliseconds(pauses, start, end)
               = dispatch_edit_pause_duration(pauses, start, end)
<1> DEFINE from(p) == ClippedFrom(p, start)
           to(p) == ClippedTo(p, end)
           S == {p \in pauses : to(p) > from(p)}
           union == UNION {from(p) .. to(p) - 1 : p \in S}
<1>1. \A p \in pauses : /\ from(p) \in Nat /\ to(p) \in Nat
                        /\ start <= from(p) /\ p.startedAt <= from(p)
                        /\ from(p) \in {start, p.startedAt}
                        /\ to(p) <= end /\ to(p) <= p.expiresAt
                        /\ p.startedAt \in Nat /\ p.expiresAt \in Nat
  BY ClippedWithin DEF PauseRow
<1>2. dispatch_edit_pause_duration(pauses, start, end) = Cardinality(union)
  <2> DEFINE T == {q \in pauses : q.startedAt < end /\ q.expiresAt > start}
             lower(p) == Max({p.startedAt, start})
             upper(p) == Max({lower(p), to(p)})
  <2>1. \A p \in pauses : lower(p) = from(p)
    <3>1. \A p : {p.startedAt, start} = {start, p.startedAt}
      OBVIOUS
    <3> QED
      BY <3>1 DEF ClippedFrom
  <2>2. \A p \in pauses : /\ upper(p) \in {from(p), to(p)}
                          /\ upper(p) >= from(p) /\ upper(p) >= to(p)
    BY <1>1, <2>1, MaxOfTwo
  <2>3. dispatch_edit_pause_duration(pauses, start, end)
            = Cardinality(UNION {lower(p) .. upper(p) - 1 : p \in T})
    BY DEF dispatch_edit_pause_duration, ClippedTo
  <2> HIDE DEF lower, upper, from, to
  <2>4. UNION {lower(p) .. upper(p) - 1 : p \in T} = union
    <3>1. ASSUME NEW t \in union PROVE t \in UNION {lower(p) .. upper(p) - 1 : p \in T}
      <4>1. PICK p \in S : t \in from(p) .. to(p) - 1
        OBVIOUS
      <4>2. p \in pauses /\ to(p) > from(p)
        OBVIOUS
      <4>3. p \in T /\ lower(p) = from(p) /\ upper(p) = to(p)
        BY <1>1, <2>1, <2>2, <4>2
      <4> QED
        BY <4>1, <4>3
    <3>2. ASSUME NEW t \in UNION {lower(p) .. upper(p) - 1 : p \in T} PROVE t \in union
      <4>1. PICK p \in T : t \in lower(p) .. upper(p) - 1
        OBVIOUS
      <4>2. p \in pauses /\ lower(p) = from(p)
        BY <2>1
      <4>3. to(p) > from(p) /\ upper(p) = to(p)
        BY <1>1, <2>2, <4>1, <4>2
      <4> QED
        BY <4>1, <4>2, <4>3
    <3> QED
      BY <3>1, <3>2
  <2> QED
    BY <2>3, <2>4
<1>3. CASE end <= start
  <2>1. editPauseMilliseconds(pauses, start, end) = 0
    BY <1>3 DEF editPauseMilliseconds
  <2>2. S = {}
    BY <1>1, <1>3
  <2>3. union = {}
    BY <2>2
  <2> QED
    BY <1>2, <2>1, <2>3, FS_EmptySet
<1>4. CASE ~(end <= start)
  <2> DEFINE InOrder(r) == \A i, j \in DOMAIN r : i < j => from(r[i]) <= from(r[j])
             ranges == CHOOSE r \in SetToSeqs(S) : InOrder(r)
             n == Cardinality(S)
  <2>1. IsFiniteSet(S)
    BY FS_Subset
  <2>2. ranges \in SetToSeqs(S) /\ InOrder(ranges)
    <3> DEFINE key == [p \in S |-> from(p)]
    <3> HIDE DEF from, to
    <3>1. key \in [S -> Nat] /\ \A p \in S : key[p] <= end /\ key[p] = from(p)
      BY <1>1
    <3> HIDE DEF key, S
    <3>2. PICK r : Sorted(S, key, r)
      BY <2>1, <3>1, SortedListExists
    <3>3. r \in SetToSeqs(S) /\ \A i \in DOMAIN r : r[i] \in S
      BY <2>1, <3>2, ListHasAll DEF Sorted
    <3>4. InOrder(r)
      BY <3>1, <3>2, <3>3 DEF Sorted
    <3> HIDE DEF InOrder
    <3> QED
      BY <3>3, <3>4
  <2>3. editPauseMilliseconds(pauses, start, end)
            = (CHOOSE f : f = [s \in SUBSET DOMAIN ranges |->
                  IF s = {} THEN [total |-> 0, cursor |-> start]
                  ELSE Stepped(f[s \ {Max(s)}], ranges[Max(s)], start, end)])[DOMAIN ranges].total
    BY <1>4 DEF editPauseMilliseconds, FoldLeft, MapThenFoldSet, Stepped
  <2> HIDE DEF ranges
  <2>4. /\ n \in Nat /\ ranges \in [1 .. n -> S]
        /\ \A p \in S : \E i \in 1 .. n : ranges[i] = p
    <3> HIDE DEF S
    <3> QED
      BY <2>1, <2>2, ListHasAll
  <2> HIDE DEF n
  <2>5. Ranges(ranges, n, start, end)
    <3>1. DOMAIN ranges = 1 .. n
      BY <2>4
    <3>2. \A i \in 1 .. n : ranges[i] \in pauses /\ from(ranges[i]) < to(ranges[i])
      <4> HIDE DEF from, to
      <4> SUFFICES ASSUME NEW i \in 1 .. n
                   PROVE  ranges[i] \in pauses /\ from(ranges[i]) < to(ranges[i])
        OBVIOUS
      <4>1. ranges[i] \in S
        BY <2>4
      <4>2. ranges[i] \in pauses /\ to(ranges[i]) > from(ranges[i])
        BY <4>1
      <4> QED
        BY <1>1, <4>2
    <3> QED
      BY <1>1, <2>2, <3>1, <3>2 DEF Ranges
  <2>6. Covered(ranges, start, end, 1 .. n) = union
    <3> HIDE DEF S
    <3>1. \A p \in S : \E i \in 1 .. n : ranges[i] = p
      BY <2>4
    <3>2. \A i \in 1 .. n : ranges[i] \in S
      BY <2>4
    <3>3. Covered(ranges, start, end, 1 .. n)
              = UNION {from(ranges[i]) .. to(ranges[i]) - 1 : i \in 1 .. n}
      BY DEF Covered
    <3> HIDE DEF from, to
    <3> QED
      BY <3>1, <3>2, <3>3
  <2>7. editPauseMilliseconds(pauses, start, end) = Swept(ranges, start, end, 1 .. n).total
    <3>1. start < end
      BY <1>4
    <3>2. DOMAIN ranges = 1 .. n
      BY <2>4
    <3> DEFINE fold == CHOOSE f : FoldOf(f, ranges, n, start, end)
    <3>3. fold[1 .. n] = Swept(ranges, start, end, 1 .. n)
      BY <2>4, <2>5, <3>1, FoldSweeps
    <3>4. editPauseMilliseconds(pauses, start, end) = fold[1 .. n].total
      BY <2>3, <3>2 DEF FoldOf
    <3> HIDE DEF fold
    <3> QED
      BY <3>3, <3>4
  <2> QED
    BY <1>2, <2>6, <2>7 DEF Swept
<1> QED
  BY <1>3, <1>4

\* Rows of the table are well-formed and the table is finite, so the two agree.
LEMMA TimesFollow ==
    ASSUME PauseTypeOK
    PROVE  TimingsAgree
<1> SUFFICES ASSUME NEW o \in Orders, order[o].status # "ABSENT",
                    NEW end \in {clock, order[o].dispatchedAt, order[o].firstAssigned} \ {0}
             PROVE  editPauseMilliseconds(PausesOf(o), order[o].createdAt, end) =
                        dispatch_edit_pause_duration(PausesOf(o), order[o].createdAt, end)
  BY DEF TimingsAgree
<1>1. order[o].createdAt \in Nat /\ end \in Nat
  BY DEF PauseTypeOK, OrderRow
<1>2. IsFiniteSet(PausesOf(o))
  <2> DEFINE held == {t \in Sessions : pause[t].order = o}
             Row(s) == [id |-> s, startedAt |-> pause[s].startedAt,
                        expiresAt |-> pause[s].expiresAt, endedAt |-> pause[s].endedAt]
             rows == [s \in held |-> Row(s)]
  <2>1. IsFiniteSet(held)
    BY EditPauseAssumption, FS_Subset
  <2>2. PausesOf(o) = {rows[s] : s \in held}
    BY DEF PausesOf
  <2>3. rows \in Surjection(held, PausesOf(o))
    BY <2>2 DEF Surjection
  <2> QED
    BY <2>1, <2>3, FS_Surjection
<1>3. \A p \in PausesOf(o) : PauseRow(p)
  BY DEF PausesOf, PauseRow, PauseTypeOK, Session
<1> QED
  BY <1>1, <1>2, <1>3, SameDurations

\* The sweep of dispatchTiming.ts and dispatch_edit_pause_duration deduct the same time,
\* whatever sessions, editors and requests there are: from every table, with requests in
\* flight or without (dispatchTiming.ts:9-33).
THEOREM DurationsAgree == PauseSpec => [](TimingsAgree /\ TimingsSound)
<1>1. PauseInv /\ [PauseNext]_pauseVars => PauseInv'
  BY PausesGoOn, EditPauseAssumption
<1>2. PauseInv => TimingsAgree /\ TimingsSound
  BY TimesFollow DEF PauseInv, TimingsSound
<1> QED
  BY <1>1, <1>2, PausesBegin, PTL DEF PauseSpec

-----------------------------------------------------------------------------
\* The order is one that a check that began at time now may alert, and the check has
\* not gone on for longer than it may.
DueAt(o, now) ==
    /\ o \in Orders
    /\ order[o].status # "ABSENT"
    /\ order[o].createdAt + AlertAfter <= now
    /\ now <= order[o].createdAt + MaxAge
    /\ now <= clock /\ clock <= now + CheckTime

WorkersDue ==
    \A w \in Workers :
        /\ \A o \in worker[w].todo : DueAt(o, worker[w].now)
        /\ worker[w].pc \in {"read", "send"} => DueAt(worker[w].order, worker[w].now)
        /\ worker[w].pc \in {"mark", "release"} => worker[w].order \in Orders

\* The provider took the key of the one e-mail when the order was old enough for it.
KeysTaken ==
    \A o \in Orders :
        /\ inbox[o] <= 1
        /\ inbox[o] # 0 =>
              /\ keys[o] # 0
              /\ order[o].status # "ABSENT"
              /\ order[o].createdAt + AlertAfter <= keys[o]

AlertTypeOK ==
    /\ alert \in [Orders -> [claimedAt: Nat, sentAt: Nat]]
    /\ worker \in [Workers -> Worker]
    /\ keys \in [Orders -> Nat]
    /\ inbox \in [Orders -> Nat]

AlertInv == PauseInv /\ AlertTypeOK /\ WorkersDue /\ KeysTaken

\* No order that exists changes its creation time or ceases to exist.
LEMMA CreatedOnce ==
    ASSUME PauseInv, [PauseNext]_pauseVars, NEW o \in Orders, order[o].status # "ABSENT"
    PROVE  order'[o].status # "ABSENT" /\ order'[o].createdAt = order[o].createdAt
<1>1. order \in [Orders -> OrderRow] /\ order[o] \in OrderRow
  BY DEF PauseInv, PauseTypeOK
<1>2. ASSUME NEW p \in Orders,
             PlaceOrder(p) \/ DispatchOrder(p) \/ RecordAssignedEvent(p)
               \/ UnassignOrder(p) \/ CloseOrder(p)
      PROVE  order'[o].status # "ABSENT" /\ order'[o].createdAt = order[o].createdAt
  BY <1>1, <1>2
  DEF PlaceOrder, DispatchOrder, RecordAssignedEvent, UnassignOrder, CloseOrder, OrderRow
<1>3. CASE order' = order
  BY <1>3
<1> QED
  BY <1>2, <1>3 DEF PauseNext, PauseRequest, CloseSession, StopBeforeStart, OpenSession,
                    RenewSession, NoChange, PauseTick, Answer, pauseVars

LEMMA AlertsBegin == Init => AlertInv
<1> SUFFICES ASSUME Init PROVE AlertInv
  OBVIOUS
<1>1. Resting \in Worker /\ Resting.todo = {} /\ Resting.pc = "idle"
  BY DEF Resting, Worker
<1>2. AlertTypeOK
  BY <1>1 DEF Init, AlertTypeOK
<1>3. WorkersDue
  BY <1>1 DEF Init, WorkersDue
<1>4. KeysTaken
  BY DEF Init, KeysTaken
<1> QED
  BY <1>2, <1>3, <1>4, PausesBegin DEF Init, AlertInv

\* Orders, pauses and the clock move on: the clock not past the time of a check.
LEMMA PausesBesideChecks ==
    ASSUME AlertInv, PauseStep
    PROVE  AlertInv'
<1>1. PauseInv'
  BY PausesGoOn, EditPauseAssumption DEF PauseStep, AlertInv
<1>2. UNCHANGED <<alert, worker, keys, inbox>>
  BY DEF PauseStep, alertVars
<1>3. \A o \in Orders : order[o].status # "ABSENT" =>
         order'[o].status # "ABSENT" /\ order'[o].createdAt = order[o].createdAt
  BY CreatedOnce DEF PauseStep, AlertInv
<1>4. clock \in Nat /\ clock' \in {clock, clock + 1}
  BY DEF PauseStep, AlertInv, PauseInv, PauseTypeOK, PauseNext, PlaceOrder, DispatchOrder,
         RecordAssignedEvent, UnassignOrder, CloseOrder, PauseRequest, CloseSession,
         StopBeforeStart, OpenSession, RenewSession, NoChange, PauseTick, Answer
<1>5. \A w \in Workers : worker[w].now \in Nat
  BY DEF AlertInv, AlertTypeOK, Worker
<1>6. WorkersDue'
  <2>1. ASSUME NEW w \in Workers, NEW o, DueAt(o, worker[w].now),
               worker[w].pc \in {"read", "send"} \/ worker[w].todo # {}
        PROVE  DueAt(o, worker[w].now)'
    <3>1. clock' = clock \/ clock < worker[w].now + CheckTime
      BY <2>1 DEF PauseStep, InTime
    <3>2. clock' <= worker[w].now + CheckTime /\ worker[w].now <= clock'
      BY <2>1, <3>1, <1>4, <1>5, AlertAssumption DEF DueAt
    <3> QED
      BY <2>1, <3>2, <1>2, <1>3 DEF DueAt
  <2> QED
    BY <2>1, <1>2 DEF AlertInv, WorkersDue
<1>7. KeysTaken'
  BY <1>2, <1>3 DEF AlertInv, KeysTaken
<1> QED
  BY <1>1, <1>2, <1>6, <1>7 DEF AlertInv, AlertTypeOK

\* A step of one instance's check that sends nothing.
LEMMA CheckGoesOn ==
    ASSUME AlertInv, NEW w \in Workers, UNCHANGED <<pauseVars, keys, inbox>>,
           alert' \in [Orders -> [claimedAt: Nat, sentAt: Nat]],
           NEW row \in Worker, worker' = [worker EXCEPT ![w] = row],
           \A o \in row.todo : DueAt(o, row.now),
           row.pc \in {"read", "send"} => DueAt(row.order, row.now),
           row.pc \in {"mark", "release"} => row.order \in Orders
    PROVE  AlertInv'
<1>1. /\ worker' \in [Workers -> Worker] /\ worker'[w] = row
      /\ \A v \in Workers : v # w => worker'[v] = worker[v]
  BY DEF AlertInv, AlertTypeOK
<1>2. PauseInv'
  BY PausesGoOn, EditPauseAssumption DEF AlertInv
<1>3. UNCHANGED <<order, clock>>
  BY DEF pauseVars
<1>4. WorkersDue'
  BY <1>1, <1>3 DEF AlertInv, WorkersDue, DueAt
<1>5. KeysTaken'
  BY <1>3 DEF AlertInv, KeysTaken
<1> QED
  BY <1>1, <1>2, <1>4, <1>5 DEF AlertInv, AlertTypeOK

\* The provider takes at most one e-mail about an order that a check may alert: when it
\* already took one, the order is not so old that it could have forgotten the key.
LEMMA DeliveredOnce ==
    ASSUME AlertInv, NEW o \in Orders, NEW now \in Nat, DueAt(o, now),
           UNCHANGED pauseVars,
           Deliver(o) \/ UNCHANGED <<keys, inbox>>
    PROVE  KeysTaken' /\ keys' \in [Orders -> Nat] /\ inbox' \in [Orders -> Nat]
<1>1. /\ keys \in [Orders -> Nat] /\ inbox \in [Orders -> Nat]
      /\ clock \in Nat /\ clock # 0 /\ order[o].createdAt \in Nat /\ UNCHANGED <<order, clock>>
  BY DEF AlertInv, AlertTypeOK, PauseInv, PauseTypeOK, OrderRow, pauseVars
<1>2. inbox[o] # 0 => Remembered(o)
  <2> SUFFICES ASSUME inbox[o] # 0 PROVE Remembered(o)
    OBVIOUS
  <2>1. keys[o] # 0 /\ order[o].createdAt + AlertAfter <= keys[o] /\ keys[o] \in Nat
    BY <1>1 DEF AlertInv, KeysTaken
  <2>2. clock <= order[o].createdAt + MaxAge + CheckTime
    BY <1>1, AlertAssumption DEF DueAt
  <2>3. clock < keys[o] + KeyWindow
    BY <2>1, <2>2, <1>1, AlertAssumption
  <2> QED
    BY <2>1, <2>3 DEF Remembered
<1>3. CASE UNCHANGED <<keys, inbox>>
  BY <1>1, <1>3 DEF AlertInv, KeysTaken
<1>4. CASE ~Remembered(o) /\ Deliver(o)
  <2>1. /\ keys' = [keys EXCEPT ![o] = clock] /\ inbox' = [inbox EXCEPT ![o] = @ + 1]
        /\ inbox[o] = 0
    BY <1>2, <1>4 DEF Deliver
  <2>2. order[o].createdAt + AlertAfter <= clock /\ order[o].status # "ABSENT"
    BY <1>1, AlertAssumption DEF DueAt
  <2> QED
    BY <2>1, <2>2, <1>1 DEF AlertInv, KeysTaken
<1> QED
  BY <1>3, <1>4 DEF Deliver

\* The end of an instance's turn.
LEMMA Continued ==
    ASSUME NEW q \in Worker
    PROVE  LET row == IF q.todo = {} THEN Resting
                      ELSE [q EXCEPT !.pc = "next", !.order = NoOrder, !.claimTime = 0]
           IN /\ row \in Worker /\ row.pc \in {"idle", "next"}
              /\ \A o \in row.todo : o \in q.todo /\ row.now = q.now
<1>1. CASE q.todo = {}
  BY <1>1 DEF Resting, Worker
<1>2. CASE q.todo # {}
  <2>1. [q EXCEPT !.pc = "next", !.order = NoOrder, !.claimTime = 0] \in Worker
    BY DEF Worker
  <2> QED
    BY <1>2, <2>1 DEF Worker
<1> QED
  BY <1>1, <1>2

\* Every step of a check preserves the invariant.
LEMMA ChecksGoOn ==
    ASSUME AlertInv, NEW w \in Workers, WorkerStep(w)
    PROVE  AlertInv'
<1> DEFINE q == worker[w]
<1>1. /\ q \in Worker /\ q.now \in Nat /\ clock \in Nat
      /\ alert \in [Orders -> [claimedAt: Nat, sentAt: Nat]]
      /\ \A o \in q.todo : DueAt(o, q.now)
      /\ q.pc \in {"read", "send"} => DueAt(q.order, q.now)
      /\ q.pc \in {"mark", "release"} => q.order \in Orders
  BY DEF AlertInv, AlertTypeOK, WorkersDue, PauseInv, PauseTypeOK, Worker
<1>2. Resting \in Worker /\ Resting.todo = {} /\ Resting.pc = "idle"
  BY DEF Resting, Worker
<1>3. ASSUME RunCheck(w) PROVE AlertInv'
  <2>1. PICK T \in Oldest(Candidates(clock)) :
          worker' = [worker EXCEPT ![w] = [Resting EXCEPT !.pc = "next", !.now = clock, !.todo = T]]
    BY <1>3 DEF RunCheck
  <2> DEFINE row == [Resting EXCEPT !.pc = "next", !.now = clock, !.todo = T]
  <2>2. \A o \in T : DueAt(o, clock)
    <3>1. T \subseteq Candidates(clock)
      BY DEF Oldest
    <3>2. \A o \in Candidates(clock) :
            /\ o \in Orders /\ order[o].status = "PLACED"
            /\ order[o].createdAt + MaxAge >= clock
            /\ order[o].createdAt + AlertAfter <= clock
      BY DEF Candidates, Undispatched
    <3>3. \A o \in Orders : order[o].createdAt \in Nat
      BY DEF AlertInv, PauseInv, PauseTypeOK, OrderRow
    <3> QED
      BY <3>1, <3>2, <3>3, <1>1, AlertAssumption DEF DueAt
  <2>3. row \in Worker /\ row.pc = "next" /\ row.now = clock /\ row.todo = T
    BY <1>1, <2>2 DEF Worker, Resting, DueAt
  <2>4. UNCHANGED <<pauseVars, alert, keys, inbox>>
    BY <1>3 DEF RunCheck
  <2> HIDE DEF row
  <2> QED
    BY <1>1, <2>1, <2>2, <2>3, <2>4, CheckGoesOn DEF row
<1>4. ASSUME NEW o \in Orders, Claim(w, o) PROVE AlertInv'
  <2>1. /\ q.pc = "next" /\ o \in q.todo /\ UNCHANGED <<pauseVars, keys, inbox>>
        /\ alert' = alert \/ alert' = [alert EXCEPT ![o].claimedAt = clock]
    BY <1>4 DEF Claim
  <2>2. alert' \in [Orders -> [claimedAt: Nat, sentAt: Nat]]
    BY <1>1, <2>1
  <2> DEFINE won == [q EXCEPT !.pc = "read", !.order = o, !.todo = @ \ {o},
                              !.claimTime = clock]
             lost == [q EXCEPT !.todo = @ \ {o}]
  <2>3. /\ won \in Worker /\ won.pc = "read" /\ won.order = o /\ won.now = q.now
        /\ won.todo = q.todo \ {o}
        /\ lost \in Worker /\ lost.pc = "next" /\ lost.now = q.now /\ lost.todo = q.todo \ {o}
    BY <1>1, <2>1 DEF Worker
  <2>4. \/ worker' = [worker EXCEPT ![w] = won]
        \/ worker' = [worker EXCEPT ![w] = Resting]
        \/ worker' = [worker EXCEPT ![w] = lost]
    BY <1>4 DEF Claim
  <2> HIDE DEF won, lost
  <2>5. CASE worker' = [worker EXCEPT ![w] = won]
    BY <2>5, <1>1, <2>1, <2>2, <2>3, CheckGoesOn
  <2>6. CASE worker' = [worker EXCEPT ![w] = Resting]
    BY <2>6, <1>2, <2>1, <2>2, CheckGoesOn
  <2>7. CASE worker' = [worker EXCEPT ![w] = lost]
    BY <2>7, <1>1, <2>1, <2>2, <2>3, CheckGoesOn
  <2> QED
    BY <2>4, <2>5, <2>6, <2>7
<1>5. ASSUME NEW pc \in {"send", "mark", "release"}, Goto(w, pc),
             q.pc \in {"read", "send", "mark"}, pc = "send" => q.pc = "read"
      PROVE  LET row == [q EXCEPT !.pc = pc] IN
             /\ row \in Worker /\ worker' = [worker EXCEPT ![w] = row]
             /\ \A o \in row.todo : DueAt(o, row.now)
             /\ row.pc \in {"read", "send"} => DueAt(row.order, row.now)
             /\ row.pc \in {"mark", "release"} => row.order \in Orders
  <2> DEFINE row == [q EXCEPT !.pc = pc]
  <2>1. row \in Worker /\ row.pc = pc /\ row.todo = q.todo /\ row.now = q.now /\ row.order = q.order
    BY <1>1, <1>5 DEF Worker
  <2>2. worker' = [worker EXCEPT ![w] = row]
    BY <1>5 DEF Goto, AlertInv, AlertTypeOK
  <2>3. q.order \in Orders
    BY <1>1, <1>5 DEF DueAt
  <2> QED
    BY <1>1, <1>5, <2>1, <2>2, <2>3
<1>6. ASSUME ReadClaimed(w) \/ MarkFailed(w) PROVE AlertInv'
  <2>1. /\ UNCHANGED <<pauseVars, alert, keys, inbox>>
        /\ \E pc \in {"send", "release"} : Goto(w, pc) /\ (pc = "send" => q.pc = "read")
        /\ q.pc \in {"read", "mark"}
    BY <1>6 DEF ReadClaimed, MarkFailed
  <2> QED
    BY <1>1, <1>5, <2>1, CheckGoesOn
<1>7. ASSUME SendAccepted(w) \/ SendFailed(w) PROVE AlertInv'
  <2>1. /\ UNCHANGED <<pauseVars, alert>> /\ q.pc = "send"
        /\ Deliver(q.order) \/ UNCHANGED <<keys, inbox>>
        /\ \E pc \in {"mark", "release"} : Goto(w, pc)
    BY <1>7 DEF SendAccepted, SendFailed
  <2>2. DueAt(q.order, q.now) /\ q.order \in Orders
    BY <1>1, <2>1 DEF DueAt
  <2>3. KeysTaken' /\ keys' \in [Orders -> Nat] /\ inbox' \in [Orders -> Nat]
    BY <1>1, <2>1, <2>2, DeliveredOnce
  <2>4. PICK row \in Worker :
          /\ worker' = [worker EXCEPT ![w] = row]
          /\ \A o \in row.todo : DueAt(o, row.now)
          /\ row.pc \in {"read", "send"} => DueAt(row.order, row.now)
          /\ row.pc \in {"mark", "release"} => row.order \in Orders
    BY <1>5, <2>1
  <2>5. /\ worker' \in [Workers -> Worker] /\ worker'[w] = row
        /\ \A v \in Workers : v # w => worker'[v] = worker[v]
    BY <2>4 DEF AlertInv, AlertTypeOK
  <2>6. UNCHANGED <<order, clock>> /\ PauseInv'
    BY <2>1, PausesGoOn, EditPauseAssumption DEF AlertInv, pauseVars
  <2>7. WorkersDue'
    BY <2>4, <2>5, <2>6 DEF AlertInv, WorkersDue, DueAt
  <2> QED
    BY <1>1, <2>1, <2>3, <2>5, <2>6, <2>7 DEF AlertInv, AlertTypeOK
<1>8. ASSUME MarkSent(w) \/ Release(w) PROVE AlertInv'
  <2>1. /\ UNCHANGED <<pauseVars, keys, inbox>> /\ Continue(w)
        /\ q.pc \in {"mark", "release"}
        /\ \/ alert' = alert
           \/ alert' = [alert EXCEPT ![q.order] = [claimedAt |-> 0, sentAt |-> clock]]
           \/ alert' = [alert EXCEPT ![q.order].claimedAt = 0]
    BY <1>8 DEF MarkSent, Release
  <2>2. alert' \in [Orders -> [claimedAt: Nat, sentAt: Nat]]
    BY <1>1, <2>1
  <2> DEFINE row == IF q.todo = {} THEN Resting
                    ELSE [q EXCEPT !.pc = "next", !.order = NoOrder, !.claimTime = 0]
  <2>3. worker' = [worker EXCEPT ![w] = row]
    BY <2>1 DEF Continue, AlertInv, AlertTypeOK
  <2>4. /\ row \in Worker /\ row.pc \in {"idle", "next"}
        /\ \A o \in row.todo : o \in q.todo /\ row.now = q.now
    BY <1>1, Continued
  <2> HIDE DEF row
  <2> QED
    BY <1>1, <2>1, <2>2, <2>3, <2>4, CheckGoesOn
<1>9. ASSUME Crash(w) PROVE AlertInv'
  BY <1>1, <1>2, <1>9, CheckGoesOn DEF Crash
<1> QED
  BY <1>3, <1>4, <1>6, <1>7, <1>8, <1>9 DEF WorkerStep

LEMMA AlertsGoOn ==
    ASSUME AlertInv, [Next]_vars
    PROVE  AlertInv'
<1>1. CASE UNCHANGED vars
  <2>1. PauseInv'
    BY <1>1, PausesGoOn, EditPauseAssumption DEF AlertInv, vars
  <2> QED
    BY <1>1, <2>1
    DEF vars, pauseVars, alertVars, AlertInv, AlertTypeOK, WorkersDue, KeysTaken, DueAt
<1> QED
  BY <1>1, ChecksGoOn, PausesBesideChecks DEF Next

\* The owner gets at most one e-mail about an order, whatever instances overlap, crash or
\* lose the provider's answers, while the provider's memory and the threshold outlast the
\* age limit and one check (undispatchedOrderAlert.service.ts:95-140).
THEOREM AlertedOnce == Spec => []AtMostOneAlert
<1>1. AlertInv => AtMostOneAlert
  BY DEF AlertInv, KeysTaken, AtMostOneAlert
<1>2. AlertInv /\ [Next]_vars => AlertInv'
  BY AlertsGoOn
<1> QED
  BY <1>1, <1>2, AlertsBegin, PTL DEF Spec

\* Orders, pauses, claims, keys and checks keep their types.
THEOREM AlertTypes == Spec => []TypeOK
<1>1. AlertInv => TypeOK
  BY DEF AlertInv, AlertTypeOK, PauseInv, TypeOK
<1>2. AlertInv /\ [Next]_vars => AlertInv'
  BY AlertsGoOn
<1> QED
  BY <1>1, <1>2, AlertsBegin, PTL DEF Spec

-----------------------------------------------------------------------------
(***************************************************************************)
(* The retention messages                                                  *)
(***************************************************************************)

Claimed == {"recheck", "send", "suppress", "record"}
Unsent == {"recheck", "send"}
WithKey == {"claim", "skip"} \cup Claimed
Running == {"next"} \cup WithKey

\* The rows are records of the types that TypeOK gives them, and a run, a callback and
\* a submission only name rows that exist.
Typed ==
    /\ smsClock \in 0 .. LastTime
    /\ customer \in [Customers -> Customer]
    /\ recipient \in [Phones -> Recipient]
    /\ DOMAIN message \subseteq Keys
    /\ message \in [DOMAIN message -> Message]
    /\ holder \in [Phones -> Jobs \cup {NoJob}]
    /\ job \in [Jobs -> Job]
    /\ sent \in Seq(Submission)
    /\ callback \in [Callbacks -> Callback]

JobsNamed ==
    \A j \in Jobs :
        /\ job[j].pc \in Running => job[j].now # Never /\ job[j].todo \subseteq DOMAIN message
        /\ job[j].pc \in WithKey => job[j].key \in DOMAIN message

\* No two runs have claimed one message, and what is claimed is marked as attempted.
ClaimsHeld ==
    \A j \in Jobs : job[j].pc \in Claimed =>
        /\ message[job[j].key].attemptedAt # Never
        /\ \A l \in Jobs : job[l].pc \in Claimed /\ job[l].key = job[j].key => l = j

\* What was submitted had been claimed, and not by a run that has yet to submit it.
SentClaimed ==
    \A i \in DOMAIN sent :
        /\ sent[i].key \in DOMAIN message
        /\ message[sent[i].key].attemptedAt # Never
        /\ \A j \in Jobs : job[j].pc \in Unsent => job[j].key # sent[i].key

\* The phone remembers the last of its attempts; who is about to make one holds the
\* phone's row and has seen that one.
PhoneHeld ==
    /\ \A k \in DOMAIN message : message[k].attemptedAt # Never =>
          message[k].attemptedAt <= recipient[PhoneOf[k[1]]].lastAttemptAt
    /\ \A j \in Jobs : job[j].pc = "claim" =>
          LET p == PhoneOf[job[j].key[1]] IN
          /\ holder[p] = j
          /\ recipient[p].lastAttemptAt # Never => Due(recipient[p].lastAttemptAt, job[j].now)

\* A row's provider id names a submission of that row; so does the one a run or a
\* callback is about to write.
IdsNamed ==
    /\ \A k \in DOMAIN message : message[k].providerMessageId # 0 =>
          /\ message[k].attemptedAt # Never
          /\ message[k].providerMessageId \in DOMAIN sent
          /\ sent[message[k].providerMessageId].key = k
    /\ \A j \in Jobs : job[j].sid # 0 =>
          /\ job[j].pc = "record"
          /\ job[j].sid \in DOMAIN sent /\ sent[job[j].sid].key = job[j].key
    /\ \A c \in Callbacks : callback[c].pc = "write" =>
          LET b == callback[c] IN
          /\ b.sid \in DOMAIN sent
          /\ b.status # "none"
          /\ b.readId # 0 =>
                b.readId = b.sid /\ deliveryRank[b.readStatus] < deliveryRank[b.status]

RetentionInv ==
    /\ Typed
    /\ JobsNamed
    /\ ClaimsHeld
    /\ SentClaimed
    /\ SubmittedOnce
    /\ PhoneHeld
    /\ AttemptsApart
    /\ IdsNamed

-----------------------------------------------------------------------------
\* The parts of a message's key.
LEMMA KeyParts ==
    ASSUME RetentionAssumption
    PROVE  /\ \A k \in Keys : k[1] \in Customers /\ k[2] \in Time /\ PhoneOf[k[1]] \in Phones
           /\ NoKey \notin Keys
           /\ \A t \in Time : t \in Int /\ (t # Never => t \in 0 .. LastTime /\ t >= 0)
BY DEF RetentionAssumption, Keys, Time, Never

\* The initial states satisfy the invariant.
LEMMA RetentionInit ==
    ASSUME RetentionAssumption, SmsInit
    PROVE  RetentionInv
<1>1. DOMAIN message = {} /\ message \in [DOMAIN message -> Message]
  BY DEF SmsInit
<1>2. Typed
  <2>1. IdleJob \in Job /\ IdleCallback \in Callback
    BY DEF IdleJob, IdleCallback, Job, Callback, Time, Never
  <2>2. customer \in [Customers -> Customer]
    <3>1. {Never, 0} \subseteq Time /\ Consents \subseteq BOOLEAN /\ {FALSE} \subseteq BOOLEAN
      BY DEF Time, Never, RetentionAssumption
    <3>2. \A r \in [anchor: {Never, 0}, consent: Consents, smsMarketingOptOut: {FALSE}] :
             r \in Customer
      BY <3>1 DEF Customer
    <3> QED
      BY <3>2 DEF SmsInit
  <2>3. recipient \in [Phones -> Recipient]
    BY DEF SmsInit, Recipient, Time, Never
  <2>4. smsClock \in 0 .. LastTime /\ sent \in Seq(Submission)
    BY DEF SmsInit, RetentionAssumption
  <2> QED
    BY <1>1, <2>1, <2>2, <2>3, <2>4 DEF SmsInit, Typed
<1>3. \A j \in Jobs : job[j].pc = "idle" /\ job[j].sid = 0
  BY DEF SmsInit, IdleJob
<1>4. \A c \in Callbacks : callback[c].pc = "idle"
  BY DEF SmsInit, IdleCallback
<1>5. DOMAIN sent = {}
  BY DEF SmsInit
<1>6. JobsNamed /\ ClaimsHeld
  BY <1>3 DEF JobsNamed, ClaimsHeld, Running, WithKey, Claimed
<1>7. SentClaimed /\ SubmittedOnce
  BY <1>5 DEF SentClaimed, SubmittedOnce
<1>8. PhoneHeld /\ AttemptsApart
  BY <1>1, <1>3 DEF PhoneHeld, AttemptsApart
<1>9. IdsNamed
  BY <1>1, <1>3, <1>4 DEF IdsNamed
<1> QED
  BY <1>2, <1>6, <1>7, <1>8, <1>9 DEF RetentionInv

\* A run that takes no message, or gives up the one it had, disturbs nothing.
LEMMA RunLetsGo ==
    ASSUME RetentionInv, NEW j \in Jobs,
           UNCHANGED <<smsClock, customer, recipient, message, sent, callback>>,
           holder' \in [Phones -> Jobs \cup {NoJob}],
           \A p \in Phones : holder[p] # j => holder'[p] = holder[p],
           NEW row \in Job, job' = [job EXCEPT ![j] = row],
           row.pc \notin WithKey, row.sid = 0,
           row.pc = "next" => row.now # Never /\ row.todo \subseteq DOMAIN message,
           RetentionAssumption
    PROVE  RetentionInv'
<1>1. /\ job' \in [Jobs -> Job]
      /\ job'[j].pc \notin WithKey
      /\ \A l \in Jobs : job'[l].pc \in WithKey => job'[l] = job[l] /\ l # j
      /\ \A l \in Jobs : l # j => job'[l] = job[l]
      /\ job'[j] = row
  BY DEF RetentionInv, Typed
<1>2. Typed'
  BY <1>1 DEF RetentionInv, Typed
<1>3. JobsNamed'
  BY <1>1 DEF RetentionInv, JobsNamed, Running
<1>4. ClaimsHeld' /\ SentClaimed'
  BY <1>1 DEF RetentionInv, ClaimsHeld, SentClaimed, WithKey, Unsent, Claimed
<1>5. SubmittedOnce' /\ AttemptsApart'
  BY DEF RetentionInv, SubmittedOnce, AttemptsApart, Due
<1>6. PhoneHeld'
  <2>1. \A l \in Jobs : job'[l].pc = "claim" =>
           job'[l] = job[l] /\ l # j /\ PhoneOf[job[l].key[1]] \in Phones
    BY <1>1, KeyParts DEF RetentionInv, Typed, JobsNamed, Running, WithKey
  <2> QED
    BY <2>1 DEF RetentionInv, PhoneHeld, Due
<1>7. IdsNamed'
  BY <1>1 DEF RetentionInv, IdsNamed, WithKey, Claimed
<1> QED
  BY <1>2, <1>3, <1>4, <1>5, <1>6, <1>7 DEF RetentionInv

\* createMany: new rows are drafts, and no row that exists is touched.
LEMMA DraftsCreated ==
    ASSUME RetentionAssumption, RetentionInv, NEW j \in Jobs, CreateDrafts(j)
    PROVE  RetentionInv'
<1>1. /\ DOMAIN message \subseteq DOMAIN message'
      /\ \A k \in DOMAIN message : message'[k] = message[k]
      /\ \A k \in DOMAIN message' \ DOMAIN message : message'[k] = NewDraft
      /\ DOMAIN message' = DOMAIN message \cup job[j].todo
      /\ message' = [k \in DOMAIN message' |-> message'[k]]
  BY DEF CreateDrafts
<1>2. NewDraft \in Message
  BY DEF NewDraft, Message, Time, Never
<1>3. job[j] \in Job
  BY DEF RetentionInv, Typed
<1> DEFINE row == [job[j] EXCEPT !.pc = "select"]
<1>4. /\ job' = [job EXCEPT ![j] = row] /\ row \in Job /\ row.pc = "select"
  BY <1>3 DEF CreateDrafts, Advance, Job
<1> HIDE DEF row
<1>5. /\ job' \in [Jobs -> Job]
      /\ job'[j].pc = "select"
      /\ \A l \in Jobs : l # j => job'[l] = job[l]
  BY <1>4 DEF RetentionInv, Typed
<1>6. Typed'
  <2>1. DOMAIN message' \subseteq Keys
    BY <1>1, <1>3 DEF RetentionInv, Typed, Job
  <2>2. message' \in [DOMAIN message' -> Message]
    BY <1>1, <1>2 DEF RetentionInv, Typed
  <2> QED
    BY <2>1, <2>2, <1>5 DEF CreateDrafts, RetentionInv, Typed
<1>7. JobsNamed'
  BY <1>1, <1>5 DEF RetentionInv, JobsNamed, Running, WithKey, Claimed
<1>8. ClaimsHeld'
  BY <1>1, <1>5 DEF RetentionInv, JobsNamed, ClaimsHeld, WithKey, Claimed
<1>9. SentClaimed' /\ SubmittedOnce'
  BY <1>1, <1>5 DEF RetentionInv, SentClaimed, SubmittedOnce, Unsent, CreateDrafts
<1>10. PhoneHeld'
  BY <1>1, <1>5 DEF RetentionInv, PhoneHeld, CreateDrafts, NewDraft, Due
<1>11. AttemptsApart'
  BY <1>1 DEF RetentionInv, AttemptsApart, NewDraft, Due
<1>12. IdsNamed'
  <2>1. job[j].sid = 0 /\ row.sid = 0
    BY <1>3 DEF RetentionInv, IdsNamed, CreateDrafts, At, row
  <2> QED
    BY <2>1, <1>1, <1>4, <1>5 DEF RetentionInv, IdsNamed, CreateDrafts, NewDraft, Typed
<1> QED
  BY <1>6, <1>7, <1>8, <1>9, <1>10, <1>11, <1>12 DEF RetentionInv

\* The claim's transaction begins: the run takes the phone's row, and a message whose
\* claim it may go on with.
LEMMA ClaimBegun ==
    ASSUME RetentionAssumption, RetentionInv, NEW j \in Jobs, NEW k \in job[j].todo,
           ClaimRead(j, k)
    PROVE  RetentionInv'
<1> DEFINE p == PhoneOf[k[1]]
<1>1. /\ job[j] \in Job /\ job[j].pc = "next" /\ job[j].now # Never
      /\ job[j].todo \subseteq DOMAIN message /\ k \in DOMAIN message /\ k \in Keys
      /\ p \in Phones
  BY KeyParts DEF RetentionInv, Typed, JobsNamed, ClaimRead, At, Running
<1>2. PICK pc \in {"skip", "claim"} :
        /\ pc = "claim" => MayClaim(k, job[j].now)
        /\ job' = [job EXCEPT ![j].key = k, ![j].todo = @ \ {k}, ![j].pc = pc]
  BY DEF ClaimRead
<1> DEFINE row == [job[j] EXCEPT !.key = k, !.todo = @ \ {k}, !.pc = pc]
<1>3. /\ row \in Job /\ row.pc = pc /\ row.key = k /\ row.now = job[j].now
      /\ row.todo = job[j].todo \ {k}
  BY <1>1 DEF Job
<1>4. job' = [job EXCEPT ![j] = row]
  BY <1>2 DEF RetentionInv, Typed
<1> HIDE DEF row
<1>5. /\ job' \in [Jobs -> Job] /\ job'[j] = row
      /\ \A l \in Jobs : l # j => job'[l] = job[l]
      /\ \A l \in Jobs : job'[l].pc \in Claimed => l # j
  BY <1>3, <1>4 DEF RetentionInv, Typed, Claimed
<1>6. /\ holder[p] = NoJob /\ NoJob \notin Jobs
      /\ holder' \in [Phones -> Jobs \cup {NoJob}] /\ holder'[p] = j
      /\ \A q \in Phones : q # p => holder'[q] = holder[q]
  BY <1>1 DEF RetentionInv, Typed, ClaimRead, RetentionAssumption
<1> HIDE DEF p
<1>7. Typed'
  BY <1>5, <1>6 DEF RetentionInv, Typed, ClaimRead
<1>8. JobsNamed'
  BY <1>1, <1>3, <1>5 DEF RetentionInv, JobsNamed, ClaimRead, Running, WithKey
<1>9. ClaimsHeld' /\ SentClaimed'
  BY <1>5 DEF RetentionInv, ClaimsHeld, SentClaimed, ClaimRead, Claimed, Unsent
<1>10. SubmittedOnce' /\ AttemptsApart'
  BY DEF RetentionInv, SubmittedOnce, AttemptsApart, ClaimRead, Due
<1>11. PhoneHeld'
  <2>1. ASSUME NEW l \in Jobs, job'[l].pc = "claim"
        PROVE  LET q == PhoneOf[job'[l].key[1]] IN
               /\ holder'[q] = l
               /\ recipient[q].lastAttemptAt # Never =>
                     Due(recipient[q].lastAttemptAt, job'[l].now)
    <3>1. CASE l = j
      BY <3>1, <2>1, <1>2, <1>3, <1>5, <1>6, Zenon DEF MayClaim, p
    <3>2. CASE l # j
      <4>1. job'[l] = job[l] /\ job[l].key \in Keys
        BY <3>2, <2>1, <1>5 DEF RetentionInv, Typed, JobsNamed, Running, WithKey
      <4>2. PhoneOf[job[l].key[1]] \in Phones /\ holder[PhoneOf[job[l].key[1]]] = l
        BY <4>1, <2>1, KeyParts DEF RetentionInv, PhoneHeld
      <4>3. PhoneOf[job[l].key[1]] # p
        BY <4>2, <1>6
      <4> QED
        BY <4>1, <4>2, <4>3, <2>1, <1>6 DEF RetentionInv, PhoneHeld
    <3> QED
      BY <3>1, <3>2
  <2> QED
    BY <2>1 DEF RetentionInv, PhoneHeld, ClaimRead
<1>12. IdsNamed'
  <2>1. job[j].sid = 0 /\ row.sid = 0
    BY <1>1 DEF RetentionInv, IdsNamed, row
  <2> QED
    BY <2>1, <1>5 DEF RetentionInv, IdsNamed, ClaimRead
<1> QED
  BY <1>7, <1>8, <1>9, <1>10, <1>11, <1>12 DEF RetentionInv

\* The end of a transaction gives the rows of its run back, and no others.
LEMMA Released ==
    ASSUME RetentionAssumption, RetentionInv, NEW j \in Jobs, ReleasePhone(j)
    PROVE  /\ holder' \in [Phones -> Jobs \cup {NoJob}]
           /\ \A p \in Phones : holder[p] # j => holder'[p] = holder[p]
BY DEF RetentionInv, Typed, ReleasePhone

\* The next turn of a run's loop.
LEMMA NextRow ==
    ASSUME NEW row \in Job
    PROVE  LET next == [IdleJob EXCEPT !.pc = "next", !.now = row.now, !.todo = row.todo] IN
           /\ next \in Job /\ next.pc = "next"
           /\ next.now = row.now /\ next.todo = row.todo /\ next.sid = 0
BY DEF Job, IdleJob

\* A row that keeps its attempt and its provider id may change otherwise.
LEMMA StatusWritten ==
    ASSUME RetentionInv, NEW k \in DOMAIN message, NEW m \in Message,
           message' = [message EXCEPT ![k] = m],
           m.attemptedAt = message[k].attemptedAt,
           m.providerMessageId = message[k].providerMessageId
    PROVE  /\ DOMAIN message' = DOMAIN message
           /\ message' \in [DOMAIN message' -> Message]
           /\ \A l \in DOMAIN message :
                 /\ message'[l].attemptedAt = message[l].attemptedAt
                 /\ message'[l].providerMessageId = message[l].providerMessageId
           /\ \A l \in DOMAIN message : l # k => message'[l] = message[l]
BY DEF RetentionInv, Typed

\* Such a write, by a run that then goes on with its next message, keeps the invariant:
\* the run's row of the phone may be given back with it.
LEMMA MessageLeft ==
    ASSUME RetentionAssumption, RetentionInv, NEW j \in Jobs,
           job[j].pc \in WithKey, NextMessage(j),
           UNCHANGED <<smsClock, customer, recipient, sent, callback>>,
           holder' \in [Phones -> Jobs \cup {NoJob}],
           \A p \in Phones : holder[p] # j => holder'[p] = holder[p],
           DOMAIN message' = DOMAIN message,
           message' \in [DOMAIN message' -> Message],
           \A l \in DOMAIN message :
               message'[l].attemptedAt = message[l].attemptedAt,
           \A l \in DOMAIN message :
               /\ message'[l].providerMessageId # 0
               /\ message'[l].providerMessageId # message[l].providerMessageId
               => /\ message'[l].attemptedAt # Never
                  /\ message'[l].providerMessageId \in DOMAIN sent
                  /\ sent[message'[l].providerMessageId].key = l
    PROVE  RetentionInv'
<1> DEFINE row == [IdleJob EXCEPT !.pc = "next", !.now = job[j].now, !.todo = job[j].todo]
<1>1. /\ row \in Job /\ row.pc = "next" /\ row.sid = 0
      /\ row.now # Never /\ row.todo \subseteq DOMAIN message
  BY NextRow DEF RetentionInv, Typed, JobsNamed, Running
<1>2. job' = [job EXCEPT ![j] = row]
  BY DEF NextMessage
<1> HIDE DEF row
<1>3. /\ job' \in [Jobs -> Job] /\ job'[j] = row
      /\ \A l \in Jobs : l # j => job'[l] = job[l]
      /\ \A l \in Jobs : job'[l].pc \in WithKey => job'[l] = job[l] /\ l # j
  BY <1>1, <1>2 DEF RetentionInv, Typed, WithKey, Claimed
<1>4. Typed'
  BY <1>3 DEF RetentionInv, Typed
<1>5. JobsNamed'
  BY <1>1, <1>3 DEF RetentionInv, JobsNamed, Running
<1>6. ClaimsHeld'
  BY <1>3 DEF RetentionInv, ClaimsHeld, JobsNamed, WithKey
<1>7. SentClaimed' /\ SubmittedOnce'
  BY <1>3 DEF RetentionInv, SentClaimed, SubmittedOnce, WithKey, Unsent, Claimed
<1>8. AttemptsApart'
  BY DEF RetentionInv, AttemptsApart
<1>9. PhoneHeld'
  <2>1. \A l \in Jobs : job'[l].pc = "claim" =>
           job'[l] = job[l] /\ l # j /\ PhoneOf[job[l].key[1]] \in Phones
    BY <1>3, KeyParts DEF RetentionInv, Typed, JobsNamed, Running, WithKey
  <2> QED
    BY <2>1 DEF RetentionInv, PhoneHeld, Due
<1>10. IdsNamed'
  <2>1. \A k \in DOMAIN message' : message'[k].providerMessageId # 0 =>
          /\ message'[k].attemptedAt # Never
          /\ message'[k].providerMessageId \in DOMAIN sent
          /\ sent[message'[k].providerMessageId].key = k
    BY DEF RetentionInv, IdsNamed
  <2>2. \A l \in Jobs : job'[l].sid # 0 => job'[l] = job[l]
    BY <1>1, <1>3
  <2> QED
    BY <2>1, <2>2 DEF RetentionInv, IdsNamed
<1> QED
  BY <1>4, <1>5, <1>6, <1>7, <1>8, <1>9, <1>10 DEF RetentionInv

\* A claim that may not go on suppresses a draft and leaves any other row alone.
LEMMA ClaimSkipped ==
    ASSUME RetentionAssumption, RetentionInv, NEW j \in Jobs, ClaimSkip(j)
    PROVE  RetentionInv'
<1> DEFINE k == job[j].key
<1>1. job[j].pc = "skip" /\ k \in DOMAIN message
  BY DEF ClaimSkip, At, RetentionInv, JobsNamed, WithKey
<1>2. /\ DOMAIN message' = DOMAIN message
      /\ message' \in [DOMAIN message' -> Message]
      /\ \A l \in DOMAIN message :
            /\ message'[l].attemptedAt = message[l].attemptedAt
            /\ message'[l].providerMessageId = message[l].providerMessageId
  <2>1. CASE message' = message
    BY <2>1 DEF RetentionInv, Typed
  <2>2. CASE message' # message
    <3> DEFINE m == [message[k] EXCEPT !.status = "FAILED", !.providerStatus = "suppressed"]
    <3>1. m \in Message /\ m.attemptedAt = message[k].attemptedAt
          /\ m.providerMessageId = message[k].providerMessageId
      BY <1>1 DEF RetentionInv, Typed, Message
    <3>2. message' = [message EXCEPT ![k] = m]
      BY <1>1, <2>2 DEF ClaimSkip, RetentionInv, Typed
    <3> HIDE DEF m, k
    <3> QED
      BY <1>1, <3>1, <3>2, StatusWritten
  <2> QED
    BY <2>1, <2>2
<1>3. ReleasePhone(j)
  BY DEF ClaimSkip
<1> HIDE DEF k
<1> QED
  BY <1>1, <1>2, <1>3, Released, MessageLeft DEF ClaimSkip, WithKey

\* A run that goes on with the message it holds, and writes nothing, keeps the invariant.
LEMMA RunGoesOn ==
    ASSUME RetentionAssumption, RetentionInv, NEW j \in Jobs,
           UNCHANGED <<smsClock, recipient, message, holder, sent, callback>>,
           customer' \in [Customers -> Customer],
           job[j].pc \in Claimed,
           NEW row \in Job, job' = [job EXCEPT ![j] = row],
           row.pc \in Claimed, row.key = job[j].key, row.now = job[j].now,
           row.todo = job[j].todo,
           row.pc \in Unsent => job[j].pc \in Unsent,
           row.sid = 0
    PROVE  RetentionInv'
<1>1. /\ job' \in [Jobs -> Job] /\ job'[j] = row
      /\ \A l \in Jobs : l # j => job'[l] = job[l]
  BY DEF RetentionInv, Typed
<1>2. Typed'
  BY <1>1 DEF RetentionInv, Typed
<1>3. JobsNamed'
  BY <1>1 DEF RetentionInv, JobsNamed, Running, WithKey
<1>4. ClaimsHeld' /\ SentClaimed' /\ SubmittedOnce'
  BY <1>1 DEF RetentionInv, ClaimsHeld, SentClaimed, SubmittedOnce
<1>5. AttemptsApart'
  BY DEF RetentionInv, AttemptsApart
<1>6. PhoneHeld'
  <2>1. \A l \in Jobs : job'[l].pc = "claim" => job'[l] = job[l]
    BY <1>1 DEF Claimed
  <2> QED
    BY <2>1 DEF RetentionInv, PhoneHeld, Due
<1>7. IdsNamed'
  BY <1>1 DEF RetentionInv, IdsNamed
<1> QED
  BY <1>2, <1>3, <1>4, <1>5, <1>6, <1>7 DEF RetentionInv

\* The claim: only one run takes a draft, and the phone it goes to has not been
\* attempted for ninety days.
LEMMA ClaimCommitted ==
    ASSUME RetentionAssumption, RetentionInv, NEW j \in Jobs, ClaimCommit(j),
           job[j].key \in Drafts
    PROVE  RetentionInv'
<1> DEFINE k == job[j].key
           p == PhoneOf[k[1]]
           m == [message[k] EXCEPT !.status = "FAILED", !.attemptedAt = job[j].now,
                                   !.providerStatus = "sending"]
           r == [recipient[p] EXCEPT !.lastAttemptAt = job[j].now]
           row == [job[j] EXCEPT !.pc = "recheck"]
<1>1. /\ job[j].pc = "claim" /\ job[j] \in Job /\ k \in DOMAIN message /\ k \in Keys
      /\ p \in Phones /\ message[k] \in Message /\ recipient[p] \in Recipient
      /\ message[k].attemptedAt = Never
      /\ job[j].now \in Time /\ job[j].now # Never
      /\ message[k].providerMessageId = 0
  <2>1. job[j].pc = "claim" /\ job[j] \in Job /\ k \in DOMAIN message /\ k \in Keys
    BY DEF RetentionInv, Typed, JobsNamed, ClaimCommit, At, WithKey
  <2>2. message[k].attemptedAt = Never /\ message[k].providerMessageId = 0
    BY DEF Drafts, RetentionInv, IdsNamed
  <2> QED
    BY <2>1, <2>2, KeyParts DEF RetentionInv, Typed, JobsNamed, Running, WithKey, Job
<1>2. /\ m \in Message /\ m.attemptedAt = job[j].now /\ m.providerMessageId = 0
      /\ r \in Recipient /\ r.lastAttemptAt = job[j].now
      /\ row \in Job /\ row.pc = "recheck" /\ row.key = k /\ row.now = job[j].now
      /\ row.todo = job[j].todo
  BY <1>1 DEF Message, Recipient, Job
<1>3. /\ message' = [message EXCEPT ![k] = m]
      /\ recipient' = [recipient EXCEPT ![p] = r]
      /\ job' = [job EXCEPT ![j] = row]
      /\ ReleasePhone(j)
      /\ UNCHANGED <<smsClock, customer, sent, callback>>
  BY <1>1 DEF ClaimCommit, Advance, RetentionInv, Typed
<1>a. /\ holder[p] = j
      /\ recipient[p].lastAttemptAt # Never =>
            Due(recipient[p].lastAttemptAt, job[j].now)
  BY <1>1 DEF RetentionInv, PhoneHeld
<1> HIDE DEF m, r, row, k, p
<1>4. /\ DOMAIN message' = DOMAIN message /\ message' \in [DOMAIN message' -> Message]
      /\ message'[k] = m /\ \A l \in DOMAIN message : l # k => message'[l] = message[l]
  BY <1>1, <1>2, <1>3 DEF RetentionInv, Typed
<1>5. /\ recipient' \in [Phones -> Recipient] /\ recipient'[p] = r
      /\ \A q \in Phones : q # p => recipient'[q] = recipient[q]
  BY <1>1, <1>2, <1>3 DEF RetentionInv, Typed
<1>6. /\ job' \in [Jobs -> Job] /\ job'[j] = row
      /\ \A l \in Jobs : l # j => job'[l] = job[l]
  BY <1>2, <1>3 DEF RetentionInv, Typed
<1>7. Typed'
  BY <1>3, <1>4, <1>5, <1>6, Released DEF RetentionInv, Typed
<1>8. JobsNamed'
  BY <1>1, <1>2, <1>4, <1>6 DEF RetentionInv, JobsNamed, Running, WithKey, k
<1>9. \A l \in Jobs : job[l].pc \in Claimed => job[l].key # k
  BY <1>1 DEF RetentionInv, ClaimsHeld
<1>10. ClaimsHeld'
  BY <1>1, <1>2, <1>4, <1>6, <1>9 DEF RetentionInv, ClaimsHeld, JobsNamed, WithKey
<1>11. SentClaimed' /\ SubmittedOnce'
  BY <1>1, <1>2, <1>3, <1>4, <1>6 DEF RetentionInv, SentClaimed, SubmittedOnce
<1>12. \A l \in DOMAIN message :
          l # k /\ PhoneOf[l[1]] = p /\ message[l].attemptedAt # Never =>
             /\ Due(message[l].attemptedAt, job[j].now)
             /\ message[l].attemptedAt < job[j].now
  <2>1. ASSUME NEW l \in DOMAIN message, PhoneOf[l[1]] = p, message[l].attemptedAt # Never
        PROVE  /\ message[l].attemptedAt <= recipient[p].lastAttemptAt
               /\ message[l].attemptedAt \in Nat /\ recipient[p].lastAttemptAt \in Time
    BY <2>1, <1>1 DEF RetentionInv, PhoneHeld, Typed, Message, Recipient, Time, Never
  <2>2. ASSUME NEW a \in Nat, NEW b \in Time, NEW c \in Time, a <= b, b # Never => Due(b, c)
        PROVE  Due(a, c) /\ a < c
    BY <2>2 DEF Due, Time, Never, RetentionAssumption
  <2> QED
    BY <2>1, <2>2, <1>1, <1>a
<1>13. AttemptsApart'
  <2> SUFFICES ASSUME NEW a \in DOMAIN message, NEW b \in DOMAIN message,
                      a # b, PhoneOf[a[1]] = PhoneOf[b[1]],
                      message'[a].attemptedAt # Never, message'[b].attemptedAt # Never,
                      message'[a].attemptedAt <= message'[b].attemptedAt
               PROVE  Due(message'[a].attemptedAt, message'[b].attemptedAt)
    BY <1>4 DEF AttemptsApart
  <2>1. CASE a # k /\ b # k
    BY <2>1, <1>4 DEF RetentionInv, AttemptsApart
  <2>2. CASE b = k
    BY <2>2, <1>4, <1>2, <1>12 DEF p
  <2>3. CASE a = k
    <3>1. message[b].attemptedAt \in Int /\ job[j].now \in Int
      BY <1>1 DEF RetentionInv, Typed, Message, Time, Never, RetentionAssumption
    <3>2. message[b].attemptedAt < job[j].now /\ job[j].now <= message[b].attemptedAt
      BY <2>3, <1>4, <1>2, <1>12 DEF p
    <3> QED
      BY <3>1, <3>2
  <2> QED
    BY <2>1, <2>2, <2>3
<1>14. PhoneHeld'
  <2>1. ASSUME NEW l \in DOMAIN message', message'[l].attemptedAt # Never
        PROVE  message'[l].attemptedAt <= recipient'[PhoneOf[l[1]]].lastAttemptAt
    <3>1. PhoneOf[l[1]] \in Phones
      BY <1>4, KeyParts DEF RetentionInv, Typed
    <3>2. CASE l = k
      BY <3>2, <1>1, <1>2, <1>4, <1>5 DEF p, Time, Never, RetentionAssumption
    <3>3. CASE l # k /\ PhoneOf[l[1]] = p
      <4>1. message'[l].attemptedAt = message[l].attemptedAt
            /\ message[l].attemptedAt < job[j].now
        BY <3>3, <2>1, <1>4, <1>12
      <4>2. message[l].attemptedAt \in Int /\ job[j].now \in Int
        BY <1>1, <1>4 DEF RetentionInv, Typed, Message, Time, Never, RetentionAssumption
      <4> QED
        BY <4>1, <4>2, <3>3, <1>2, <1>5
    <3>4. CASE PhoneOf[l[1]] # p
      BY <3>1, <3>4, <2>1, <1>4, <1>5 DEF RetentionInv, PhoneHeld, p
    <3> QED
      BY <3>2, <3>3, <3>4
  <2>2. ASSUME NEW l \in Jobs, job'[l].pc = "claim"
        PROVE  LET q == PhoneOf[job'[l].key[1]] IN
               /\ holder'[q] = l
               /\ recipient'[q].lastAttemptAt # Never =>
                     Due(recipient'[q].lastAttemptAt, job'[l].now)
    <3>1. l # j /\ job'[l] = job[l] /\ job[l].key \in Keys
      BY <2>2, <1>2, <1>6 DEF RetentionInv, Typed, JobsNamed, WithKey
    <3>2. PhoneOf[job[l].key[1]] \in Phones /\ holder[PhoneOf[job[l].key[1]]] = l
      BY <3>1, <2>2, KeyParts DEF RetentionInv, PhoneHeld
    <3>3. PhoneOf[job[l].key[1]] # p /\ holder'[PhoneOf[job[l].key[1]]] = l
      BY <3>1, <3>2, <1>a, <1>3, Released
    <3> QED
      BY <3>1, <3>2, <3>3, <2>2, <1>5 DEF RetentionInv, PhoneHeld
  <2> QED
    BY <2>1, <2>2 DEF PhoneHeld
<1>15. IdsNamed'
  <2>1. job[j].sid = 0 /\ row.sid = 0
    BY <1>1 DEF RetentionInv, IdsNamed, row
  <2> QED
    BY <2>1, <1>1, <1>2, <1>3, <1>4, <1>6 DEF RetentionInv, IdsNamed
<1> QED
  BY <1>7, <1>8, <1>10, <1>11, <1>13, <1>14, <1>15 DEF RetentionInv

\* The other outcome of the claim: another run has the message.
LEMMA ClaimLost ==
    ASSUME RetentionAssumption, RetentionInv, NEW j \in Jobs, ClaimCommit(j),
           job[j].key \notin Drafts
    PROVE  RetentionInv'
<1>1. /\ job[j].pc \in WithKey /\ NextMessage(j) /\ ReleasePhone(j)
      /\ UNCHANGED <<smsClock, customer, recipient, message, sent, callback>>
  BY DEF ClaimCommit, At, WithKey
<1>2. message' \in [DOMAIN message' -> Message]
  BY <1>1 DEF RetentionInv, Typed
<1> QED
  BY <1>1, <1>2, Released, MessageLeft

\* A message that is suppressed or sent was never submitted before.
LEMMA NoIdYet ==
    ASSUME RetentionInv, NEW j \in Jobs, job[j].pc \in Unsent
    PROVE  /\ job[j].key \in DOMAIN message
           /\ message[job[j].key].providerMessageId = 0
           /\ message[job[j].key].attemptedAt # Never
BY DEF RetentionInv, JobsNamed, ClaimsHeld, SentClaimed, IdsNamed, Unsent, Claimed, WithKey

\* The final look at the opt-out.
LEMMA Rechecked ==
    ASSUME RetentionAssumption, RetentionInv, NEW j \in Jobs, Recheck(j)
    PROVE  RetentionInv'
<1> DEFINE k == job[j].key
<1>1. job[j].pc = "recheck" /\ job[j] \in Job /\ k \in DOMAIN message
  BY NoIdYet DEF Recheck, At, Unsent, RetentionInv, Typed
<1>2. CASE recipient[PhoneOf[k[1]]].optedOut
  <2> DEFINE m == [message[k] EXCEPT !.providerStatus = "suppressed"]
  <2>1. m \in Message /\ m.attemptedAt = message[k].attemptedAt
        /\ m.providerMessageId = message[k].providerMessageId
    BY <1>1 DEF RetentionInv, Typed, Message
  <2>2. /\ message' = [message EXCEPT ![k] = m] /\ NextMessage(j)
        /\ UNCHANGED <<smsClock, customer, recipient, holder, sent, callback>>
    BY <1>2 DEF Recheck
  <2>3. holder' \in [Phones -> Jobs \cup {NoJob}]
    BY <2>2 DEF RetentionInv, Typed
  <2> HIDE DEF m, k
  <2>4. /\ DOMAIN message' = DOMAIN message
        /\ message' \in [DOMAIN message' -> Message]
        /\ \A l \in DOMAIN message :
              /\ message'[l].attemptedAt = message[l].attemptedAt
              /\ message'[l].providerMessageId = message[l].providerMessageId
    BY <1>1, <2>1, <2>2, StatusWritten
  <2> QED
    BY <1>1, <2>2, <2>3, <2>4, MessageLeft DEF WithKey, Claimed
<1>3. CASE ~recipient[PhoneOf[k[1]]].optedOut
  <2> DEFINE row == [job[j] EXCEPT !.pc = "send"]
  <2>1. /\ row \in Job /\ row.pc = "send" /\ row.key = job[j].key
        /\ row.now = job[j].now /\ row.todo = job[j].todo /\ row.sid = 0
    BY <1>1 DEF Job, RetentionInv, IdsNamed
  <2>2. /\ job' = [job EXCEPT ![j] = row]
        /\ UNCHANGED <<smsClock, customer, recipient, message, holder, sent, callback>>
    BY <1>3 DEF Recheck, Advance
  <2>3. customer' \in [Customers -> Customer]
    BY <2>2 DEF RetentionInv, Typed
  <2> HIDE DEF row, k
  <2> QED
    BY <1>1, <2>1, <2>2, <2>3, RunGoesOn DEF Claimed, Unsent
<1> QED
  BY <1>2, <1>3

\* The provider takes a message that it has not taken before.
LEMMA Submitted ==
    ASSUME RetentionAssumption, RetentionInv, NEW j \in Jobs, SendTaken(j)
    PROVE  RetentionInv'
<1> DEFINE k == job[j].key
           s == [key |-> k, at |-> smsClock, status |-> "queued"]
<1>1. /\ job[j].pc = "send" /\ job[j] \in Job /\ k \in DOMAIN message /\ k \in Keys
      /\ message[k].providerMessageId = 0 /\ message[k].attemptedAt # Never
  BY NoIdYet DEF SendTaken, At, Unsent, RetentionInv, Typed
<1>2. s \in Submission /\ sent \in Seq(Submission)
  BY <1>1 DEF RetentionInv, Typed, Submission, RetentionAssumption, Time
<1>3. /\ sent' = Append(sent, s)
      /\ UNCHANGED <<smsClock, customer, recipient, message, holder, callback>>
  BY DEF SendTaken
<1>4. /\ sent' \in Seq(Submission) /\ Len(sent') = Len(sent) + 1
      /\ Len(sent) \in Nat /\ DOMAIN sent = 1 .. Len(sent) /\ DOMAIN sent' = 1 .. Len(sent')
      /\ sent'[Len(sent')] = s /\ \A i \in DOMAIN sent : sent'[i] = sent[i]
  BY <1>2, <1>3
<1> HIDE DEF s
<1>5. PICK sid \in {0, Len(sent')}, status \in {"queued", "unknown"} :
        job' = [job EXCEPT ![j].pc = "record", ![j].sid = sid, ![j].status = status]
  BY DEF SendTaken
<1> DEFINE row == [job[j] EXCEPT !.pc = "record", !.sid = sid, !.status = status]
<1>6. /\ row \in Job /\ row.pc = "record" /\ row.key = k /\ row.now = job[j].now
      /\ row.todo = job[j].todo /\ row.sid = sid
  <2>1. sid \in Nat /\ status \in ProviderStatuses \cup {"none", "rejected", "unknown"}
    BY <1>4 DEF RetentionAssumption
  <2> QED
    BY <2>1, <1>1 DEF Job
<1>7. job' = [job EXCEPT ![j] = row]
  BY <1>5 DEF RetentionInv, Typed
<1> HIDE DEF row
<1>8. /\ job' \in [Jobs -> Job] /\ job'[j] = row
      /\ \A l \in Jobs : l # j => job'[l] = job[l]
  BY <1>6, <1>7 DEF RetentionInv, Typed
<1>a. s.key = k
  BY DEF s
<1>9. Typed'
  BY <1>3, <1>4, <1>8 DEF RetentionInv, Typed
<1>10. JobsNamed'
  BY <1>1, <1>3, <1>6, <1>8 DEF RetentionInv, JobsNamed, Running, WithKey, Claimed
<1>11. ClaimsHeld'
  BY <1>1, <1>3, <1>6, <1>8 DEF RetentionInv, ClaimsHeld, Claimed
<1>12. \A l \in Jobs : job'[l].pc \in Unsent => l # j /\ job[l].key # k
  BY <1>1, <1>6, <1>8 DEF RetentionInv, ClaimsHeld, Claimed, Unsent
<1>13. \A i \in DOMAIN sent : sent[i].key # k
  BY <1>1 DEF RetentionInv, SentClaimed, Unsent
<1>14. SentClaimed'
  <2> SUFFICES ASSUME NEW i \in DOMAIN sent'
               PROVE  /\ sent'[i].key \in DOMAIN message
                      /\ message[sent'[i].key].attemptedAt # Never
                      /\ \A l \in Jobs : job'[l].pc \in Unsent => job'[l].key # sent'[i].key
    BY <1>3 DEF SentClaimed
  <2>1. CASE i = Len(sent')
    BY <2>1, <1>1, <1>4, <1>8, <1>a, <1>12
  <2>2. CASE i \in DOMAIN sent
    BY <2>2, <1>4, <1>8, <1>12 DEF RetentionInv, SentClaimed
  <2> QED
    BY <2>1, <2>2, <1>4
<1>15. SubmittedOnce'
  <2>1. \A i \in DOMAIN sent' : i = Len(sent') \/ i \in DOMAIN sent
    BY <1>4
  <2> QED
    BY <2>1, <1>4, <1>a, <1>13 DEF RetentionInv, SubmittedOnce
<1>16. AttemptsApart'
  BY <1>3 DEF RetentionInv, AttemptsApart
<1>17. PhoneHeld'
  <2>1. \A l \in Jobs : job'[l].pc = "claim" => job'[l] = job[l]
    BY <1>6, <1>8
  <2> QED
    BY <1>3, <2>1 DEF RetentionInv, PhoneHeld, Due
<1>18. IdsNamed'
  <2>1. DOMAIN sent \subseteq DOMAIN sent' /\ Len(sent') \in DOMAIN sent'
    BY <1>4
  <2> QED
    BY <2>1, <1>3, <1>4, <1>5, <1>6, <1>8, <1>a DEF RetentionInv, IdsNamed
<1> QED
  BY <1>9, <1>10, <1>11, <1>14, <1>15, <1>16, <1>17, <1>18 DEF RetentionInv

\* The provider refuses a message, and the run goes on to record it.
LEMMA Refused ==
    ASSUME RetentionAssumption, RetentionInv, NEW j \in Jobs, SendRefused(j)
    PROVE  RetentionInv'
<1>1. job[j].pc = "send" /\ job[j] \in Job
  BY DEF SendRefused, At, RetentionInv, Typed
<1>2. PICK status \in {"rejected", "unknown"}, pc \in {"suppress", "record"} :
        job' = [job EXCEPT ![j].pc = pc, ![j].sid = 0, ![j].status = status]
  BY DEF SendRefused
<1> DEFINE row == [job[j] EXCEPT !.pc = pc, !.sid = 0, !.status = status]
<1>3. /\ row \in Job /\ row.pc = pc /\ row.key = job[j].key /\ row.now = job[j].now
      /\ row.todo = job[j].todo /\ row.sid = 0
  BY <1>1 DEF Job
<1>4. job' = [job EXCEPT ![j] = row]
  BY <1>2 DEF RetentionInv, Typed
<1>5. /\ UNCHANGED <<smsClock, recipient, message, holder, sent, callback>>
      /\ customer' \in [Customers -> Customer]
  BY DEF SendRefused, RetentionInv, Typed
<1> HIDE DEF row
<1> QED
  BY <1>1, <1>3, <1>4, <1>5, RunGoesOn DEF Claimed, Unsent

\* A STOP, or a refusal that stands for one, writes the phone's row and its profiles.
LEMMA PhoneSuppressed ==
    ASSUME RetentionInv, NEW p \in Phones, Suppress(p)
    PROVE  /\ recipient' \in [Phones -> Recipient]
           /\ \A q \in Phones : recipient'[q].lastAttemptAt = recipient[q].lastAttemptAt
           /\ customer' \in [Customers -> Customer]
BY DEF RetentionInv, Typed, Suppress, Recipient, Customer

\* A change of the opt-outs alone keeps the invariant.
LEMMA OptOutWritten ==
    ASSUME RetentionAssumption, RetentionInv,
           UNCHANGED <<smsClock, message, holder, job, sent, callback>>,
           recipient' \in [Phones -> Recipient],
           \A q \in Phones : recipient'[q].lastAttemptAt = recipient[q].lastAttemptAt,
           customer' \in [Customers -> Customer]
    PROVE  RetentionInv'
<1>1. Typed'
  BY DEF RetentionInv, Typed
<1>2. JobsNamed' /\ ClaimsHeld' /\ SentClaimed' /\ SubmittedOnce' /\ AttemptsApart' /\ IdsNamed'
  BY DEF RetentionInv, JobsNamed, ClaimsHeld, SentClaimed, SubmittedOnce, AttemptsApart, IdsNamed
<1>3. PhoneHeld'
  <2>1. \A k \in DOMAIN message : PhoneOf[k[1]] \in Phones
    BY KeyParts DEF RetentionInv, Typed
  <2>2. \A j \in Jobs : job[j].pc = "claim" => PhoneOf[job[j].key[1]] \in Phones
    BY <2>1 DEF RetentionInv, JobsNamed, WithKey
  <2> QED
    BY <2>1, <2>2 DEF RetentionInv, PhoneHeld
<1> QED
  BY <1>1, <1>2, <1>3 DEF RetentionInv

\* A run whose message was refused for an opt-out records that opt-out.
LEMMA RefusalSuppresses ==
    ASSUME RetentionAssumption, RetentionInv, NEW j \in Jobs, SuppressAfterRefusal(j)
    PROVE  RetentionInv'
<1>1. /\ job[j].pc = "suppress" /\ job[j] \in Job /\ job[j].key \in Keys
      /\ PhoneOf[job[j].key[1]] \in Phones
      /\ job[j].pc \in Claimed /\ job[j].pc \notin Unsent
  BY KeyParts
  DEF SuppressAfterRefusal, At, RetentionInv, Typed, JobsNamed, WithKey, Claimed, Unsent
<1> DEFINE row == [job[j] EXCEPT !.pc = "record"]
<1>2. /\ row \in Job /\ row.pc = "record" /\ row.key = job[j].key
      /\ row.now = job[j].now /\ row.todo = job[j].todo /\ row.sid = 0
  BY <1>1 DEF Job, RetentionInv, IdsNamed
<1>3. /\ job' = [job EXCEPT ![j] = row]
      /\ UNCHANGED <<smsClock, message, holder, sent, callback>>
  BY DEF SuppressAfterRefusal, Advance
<1> HIDE DEF row
<1>4. /\ recipient' \in [Phones -> Recipient]
      /\ \A q \in Phones : recipient'[q].lastAttemptAt = recipient[q].lastAttemptAt
      /\ customer' \in [Customers -> Customer]
  BY <1>1, PhoneSuppressed DEF SuppressAfterRefusal
<1>5. /\ job' \in [Jobs -> Job] /\ job'[j] = row
      /\ \A l \in Jobs : l # j => job'[l] = job[l]
  BY <1>2, <1>3 DEF RetentionInv, Typed
<1>6. Typed'
  BY <1>3, <1>4, <1>5 DEF RetentionInv, Typed
<1>7. JobsNamed'
  BY <1>1, <1>2, <1>3, <1>5 DEF RetentionInv, JobsNamed, Running, WithKey
<1>8. ClaimsHeld' /\ SentClaimed' /\ SubmittedOnce' /\ AttemptsApart'
  BY <1>1, <1>2, <1>3, <1>5
  DEF RetentionInv, ClaimsHeld, SentClaimed, SubmittedOnce, AttemptsApart, Claimed, Unsent
<1>9. PhoneHeld'
  <2>1. \A k \in DOMAIN message : PhoneOf[k[1]] \in Phones
    BY KeyParts DEF RetentionInv, Typed
  <2>2. \A l \in Jobs : job'[l].pc = "claim" =>
           job'[l] = job[l] /\ PhoneOf[job[l].key[1]] \in Phones
    BY <2>1, <1>2, <1>5 DEF RetentionInv, JobsNamed, WithKey
  <2> QED
    BY <2>1, <2>2, <1>3, <1>4 DEF RetentionInv, PhoneHeld
<1>10. IdsNamed'
  BY <1>2, <1>3, <1>5 DEF RetentionInv, IdsNamed
<1> QED
  BY <1>6, <1>7, <1>8, <1>9, <1>10 DEF RetentionInv

\* The outcome of a send is written to a row that nothing else has named.
LEMMA Recorded ==
    ASSUME RetentionAssumption, RetentionInv, NEW j \in Jobs, Record(j)
    PROVE  RetentionInv'
<1> DEFINE k == job[j].key
<1>1. /\ job[j].pc = "record" /\ job[j] \in Job /\ k \in DOMAIN message
      /\ message[k] \in Message /\ message[k].attemptedAt # Never
  BY DEF Record, At, RetentionInv, Typed, JobsNamed, ClaimsHeld, WithKey, Claimed
<1>2. /\ NextMessage(j)
      /\ UNCHANGED <<smsClock, customer, recipient, holder, sent, callback>>
      /\ holder' \in [Phones -> Jobs \cup {NoJob}]
  BY DEF Record, RetentionInv, Typed
<1>3. CASE message[k].providerStatus = "sending" /\ message[k].providerMessageId = 0
  <2>1. PICK st \in {"SENT", "FAILED"} :
          message' = [message EXCEPT ![k].status = st, ![k].providerMessageId = job[j].sid,
                                     ![k].providerStatus = job[j].status]
    BY <1>3 DEF Record
  <2> DEFINE m == [message[k] EXCEPT !.status = st, !.providerMessageId = job[j].sid,
                                     !.providerStatus = job[j].status]
  <2>2. /\ m \in Message /\ m.attemptedAt = message[k].attemptedAt
        /\ m.providerMessageId = job[j].sid
    BY <1>1 DEF Message, Job
  <2>3. message' = [message EXCEPT ![k] = m]
    BY <2>1 DEF RetentionInv, Typed
  <2> HIDE DEF m
  <2>4. /\ DOMAIN message' = DOMAIN message /\ message' \in [DOMAIN message' -> Message]
        /\ message'[k] = m /\ \A l \in DOMAIN message : l # k => message'[l] = message[l]
    BY <1>1, <2>2, <2>3 DEF RetentionInv, Typed
  <2>5. job[j].sid # 0 => job[j].sid \in DOMAIN sent /\ sent[job[j].sid].key = k
    BY DEF RetentionInv, IdsNamed
  <2> HIDE DEF k
  <2>6. \A l \in DOMAIN message :
          /\ message'[l].attemptedAt = message[l].attemptedAt
          /\ /\ message'[l].providerMessageId # 0
             /\ message'[l].providerMessageId # message[l].providerMessageId
             => /\ message'[l].attemptedAt # Never
                /\ message'[l].providerMessageId \in DOMAIN sent
                /\ sent[message'[l].providerMessageId].key = l
    BY <1>1, <2>2, <2>4, <2>5
  <2> QED
    BY <1>1, <1>2, <2>4, <2>6, MessageLeft DEF WithKey, Claimed
<1>4. CASE ~(message[k].providerStatus = "sending" /\ message[k].providerMessageId = 0)
  <2>1. message' = message /\ message' \in [DOMAIN message' -> Message]
    BY <1>4 DEF Record, RetentionInv, Typed
  <2> HIDE DEF k
  <2> QED
    BY <1>1, <1>2, <2>1, MessageLeft DEF WithKey, Claimed
<1> QED
  BY <1>3, <1>4

\* The provider's delivery goes on: no submission becomes that of another message.
LEMMA Advanced ==
    ASSUME RetentionAssumption, RetentionInv, NEW i \in DOMAIN sent, ProviderAdvances(i)
    PROVE  RetentionInv'
<1>1. PICK status \in ProviderStatuses : sent' = [sent EXCEPT ![i].status = status]
  BY DEF ProviderAdvances
<1>2. sent \in Seq(Submission) /\ sent[i] \in Submission
  BY DEF RetentionInv, Typed
<1> DEFINE s == [sent[i] EXCEPT !.status = status]
<1>3. s \in Submission /\ s.key = sent[i].key
  BY <1>2 DEF Submission
<1>4. sent' = [sent EXCEPT ![i] = s]
  BY <1>1
<1> HIDE DEF s
<1>5. /\ sent' \in Seq(Submission) /\ DOMAIN sent' = DOMAIN sent
      /\ \A l \in DOMAIN sent : sent'[l].key = sent[l].key
  BY <1>2, <1>3, <1>4
<1>6. UNCHANGED <<smsClock, customer, recipient, message, holder, job, callback>>
  BY DEF ProviderAdvances
<1>7. Typed'
  BY <1>5, <1>6 DEF RetentionInv, Typed
<1>8. JobsNamed' /\ ClaimsHeld' /\ SentClaimed' /\ SubmittedOnce' /\ PhoneHeld' /\ AttemptsApart'
  BY <1>5, <1>6
  DEF RetentionInv, JobsNamed, ClaimsHeld, SentClaimed, SubmittedOnce, PhoneHeld, AttemptsApart
<1>9. IdsNamed'
  BY <1>5, <1>6 DEF RetentionInv, IdsNamed
<1> QED
  BY <1>7, <1>8, <1>9 DEF RetentionInv

\* A callback decides on a row whose id, if it has one, is that of its own submission.
LEMMA ReadByCallback ==
    ASSUME RetentionAssumption, RetentionInv, NEW c \in Callbacks, NEW i \in DOMAIN sent,
           NEW status \in Reported(i), CallbackRead(c, i, status)
    PROVE  RetentionInv'
<1> DEFINE m == message[sent[i].key]
           b == [pc |-> "write", sid |-> i, status |-> status,
                 readStatus |-> m.providerStatus, readId |-> m.providerMessageId]
<1>1. m \in Message /\ i \in Nat /\ status \in ProviderStatuses
  BY DEF RetentionInv, Typed, SentClaimed, Reported
<1>2. /\ m.providerMessageId \in {0, i} /\ Supersedes(m, status)
      /\ callback' = [callback EXCEPT ![c] = b]
      /\ UNCHANGED <<smsClock, customer, recipient, message, holder, job, sent>>
  BY DEF CallbackRead
<1>3. b \in Callback
  BY <1>1, <1>2 DEF Callback, Message, Supersedes
<1>4. status # "none"
  BY <1>1 DEF RetentionAssumption
<1>5. /\ b.pc = "write" /\ b.sid = i /\ b.status = status
      /\ b.readId # 0 => b.readId = i /\ deliveryRank[b.readStatus] < deliveryRank[status]
  BY <1>2 DEF Supersedes
<1> HIDE DEF b
<1>6. /\ callback' \in [Callbacks -> Callback] /\ callback'[c] = b
      /\ \A d \in Callbacks : d # c => callback'[d] = callback[d]
  BY <1>2, <1>3 DEF RetentionInv, Typed
<1>7. Typed'
  BY <1>2, <1>6 DEF RetentionInv, Typed
<1>8. JobsNamed' /\ ClaimsHeld' /\ SentClaimed' /\ SubmittedOnce' /\ PhoneHeld' /\ AttemptsApart'
  BY <1>2
  DEF RetentionInv, JobsNamed, ClaimsHeld, SentClaimed, SubmittedOnce, PhoneHeld, AttemptsApart
<1>9. IdsNamed'
  BY <1>2, <1>4, <1>5, <1>6 DEF RetentionInv, IdsNamed
<1> QED
  BY <1>7, <1>8, <1>9 DEF RetentionInv

\* The write of a callback names its own submission in the row of that submission.
LEMMA WrittenByCallback ==
    ASSUME RetentionAssumption, RetentionInv, NEW c \in Callbacks, CallbackWrite(c)
    PROVE  RetentionInv'
<1> DEFINE b == callback[c]
           k == sent[b.sid].key
<1>1. /\ b \in Callback /\ b.pc = "write" /\ b.sid \in DOMAIN sent
      /\ k \in DOMAIN message /\ message[k] \in Message /\ message[k].attemptedAt # Never
  BY DEF CallbackWrite, RetentionInv, Typed, IdsNamed, SentClaimed
<1>2. /\ callback' = [callback EXCEPT ![c] = IdleCallback]
      /\ IdleCallback \in Callback /\ IdleCallback.pc = "idle"
      /\ UNCHANGED <<smsClock, customer, recipient, holder, job, sent>>
  BY DEF CallbackWrite, IdleCallback, Callback
<1>3. /\ callback' \in [Callbacks -> Callback] /\ callback'[c] = IdleCallback
      /\ \A d \in Callbacks : d # c => callback'[d] = callback[d]
  BY <1>2 DEF RetentionInv, Typed
<1>4. /\ DOMAIN message' = DOMAIN message /\ message' \in [DOMAIN message' -> Message]
      /\ \A l \in DOMAIN message :
            /\ message'[l].attemptedAt = message[l].attemptedAt
            /\ message'[l].providerMessageId # message[l].providerMessageId =>
                  l = k /\ message'[l].providerMessageId = b.sid
  <2>1. CASE message' = message
    BY <2>1 DEF RetentionInv, Typed
  <2>2. CASE message' # message
    <3> DEFINE m == [message[k] EXCEPT
                  !.providerMessageId = b.sid, !.providerStatus = b.status,
                  !.status = IF b.status = "failed" THEN "FAILED" ELSE "SENT"]
    <3>1. /\ m \in Message /\ m.attemptedAt = message[k].attemptedAt
          /\ m.providerMessageId = b.sid
      BY <1>1 DEF Message, Callback
    <3>2. message' = [message EXCEPT ![k] = m]
      BY <2>2 DEF CallbackWrite, RetentionInv, Typed
    <3> HIDE DEF m, k
    <3> QED
      BY <1>1, <3>1, <3>2 DEF RetentionInv, Typed
  <2> QED
    BY <2>1, <2>2
<1> HIDE DEF b
<1>5. Typed'
  BY <1>2, <1>3, <1>4 DEF RetentionInv, Typed
<1>6. JobsNamed' /\ ClaimsHeld' /\ SentClaimed' /\ SubmittedOnce'
  BY <1>2, <1>4 DEF RetentionInv, JobsNamed, ClaimsHeld, SentClaimed, SubmittedOnce,
                    WithKey, Claimed
<1>7. PhoneHeld' /\ AttemptsApart'
  BY <1>2, <1>4 DEF RetentionInv, PhoneHeld, AttemptsApart
<1>8. IdsNamed'
  BY <1>1, <1>2, <1>3, <1>4 DEF RetentionInv, IdsNamed
<1> QED
  BY <1>5, <1>6, <1>7, <1>8 DEF RetentionInv

\* The rest of the program writes only the profiles, and the clock goes on.
LEMMA Elsewhere ==
    ASSUME RetentionAssumption, RetentionInv,
           (\E c \in Customers : OrderDelivered(c)) \/ Tick \/ UNCHANGED smsVars
    PROVE  RetentionInv'
<1>1. UNCHANGED <<recipient, message, holder, job, sent, callback>>
  BY DEF OrderDelivered, Tick, smsVars
<1>2. smsClock' \in 0 .. LastTime
  BY DEF OrderDelivered, Tick, smsVars, RetentionInv, Typed, RetentionAssumption
<1>3. customer' \in [Customers -> Customer]
  <2>1. ASSUME NEW c \in Customers, OrderDelivered(c) PROVE customer' \in [Customers -> Customer]
    <3>1. [customer[c] EXCEPT !.anchor = smsClock] \in Customer
      BY DEF RetentionInv, Typed, Customer, Time
    <3> QED
      BY <2>1, <3>1 DEF OrderDelivered, RetentionInv, Typed
  <2> QED
    BY <2>1 DEF Tick, smsVars, RetentionInv, Typed
<1>4. Typed'
  BY <1>1, <1>2, <1>3 DEF RetentionInv, Typed
<1> QED
  BY <1>1, <1>4
  DEF RetentionInv, JobsNamed, ClaimsHeld, SentClaimed, SubmittedOnce, PhoneHeld,
      AttemptsApart, IdsNamed

\* The steps of a run that take up or give up no message.
LEMMA RunTurns ==
    ASSUME RetentionAssumption, RetentionInv, NEW j \in Jobs,
           DraftScan(j) \/ SelectMessages(j) \/ OutsideWindow(j) \/ EndRun(j) \/ Die(j)
    PROVE  RetentionInv'
<1>1. /\ IdleJob \in Job /\ IdleJob.pc \notin WithKey /\ IdleJob.pc # "next" /\ IdleJob.sid = 0
  BY DEF IdleJob, Job, WithKey, Claimed, Time
<1>2. holder \in [Phones -> Jobs \cup {NoJob}] /\ job[j] \in Job
  BY DEF RetentionInv, Typed
<1>3. ASSUME DraftScan(j) PROVE RetentionInv'
  <2> DEFINE due == {<<c, customer[c].anchor>> : c \in
                      {c \in Customers : /\ customer[c].anchor # Never
                                         /\ ~customer[c].smsMarketingOptOut
                                         /\ Due(customer[c].anchor, smsClock)
                                         /\ ~Lapsed(c, smsClock)}}
             row == [IdleJob EXCEPT !.pc = "draft", !.todo = due]
  <2>1. due \subseteq Keys
    BY DEF RetentionInv, Typed, Customer, Keys
  <2> HIDE DEF due
  <2>2. row \in Job /\ row.pc = "draft" /\ row.sid = 0
    BY <2>1 DEF Job, IdleJob, Time
  <2>3. /\ job' = [job EXCEPT ![j] = row]
        /\ UNCHANGED <<smsClock, customer, recipient, message, holder, sent, callback>>
    BY <1>3 DEF DraftScan, due
  <2> HIDE DEF row
  <2> QED
    BY <1>2, <2>2, <2>3, RunLetsGo DEF WithKey, Claimed
<1>4. ASSUME SelectMessages(j) PROVE RetentionInv'
  <2>1. PICK chosen \in SUBSET {k \in Drafts : Due(k[2], smsClock)} :
          job' = [job EXCEPT ![j].pc = "next", ![j].now = smsClock, ![j].todo = chosen]
    BY <1>4 DEF SelectMessages
  <2> DEFINE row == [job[j] EXCEPT !.pc = "next", !.now = smsClock, !.todo = chosen]
  <2>2. chosen \subseteq DOMAIN message /\ chosen \subseteq Keys
    BY DEF Drafts, RetentionInv, Typed
  <2>3. smsClock \in Time /\ smsClock # Never
    BY DEF RetentionInv, Typed, Time, Never, RetentionAssumption
  <2>4. row \in Job /\ row.pc = "next" /\ row.now = smsClock /\ row.todo = chosen
        /\ row.sid = job[j].sid
    BY <1>2, <2>2, <2>3 DEF Job
  <2>5. job[j].sid = 0
    BY <1>4 DEF SelectMessages, At, RetentionInv, IdsNamed
  <2>6. /\ job' = [job EXCEPT ![j] = row]
        /\ UNCHANGED <<smsClock, customer, recipient, message, holder, sent, callback>>
    BY <1>4, <2>1 DEF SelectMessages, RetentionInv, Typed
  <2> HIDE DEF row
  <2> QED
    BY <1>2, <2>2, <2>3, <2>4, <2>5, <2>6, RunLetsGo DEF WithKey, Claimed
<1>5. ASSUME OutsideWindow(j) \/ EndRun(j) PROVE RetentionInv'
  BY <1>1, <1>2, <1>5, RunLetsGo DEF OutsideWindow, EndRun
<1>6. ASSUME Die(j) PROVE RetentionInv'
  <2>1. /\ job' = [job EXCEPT ![j] = IdleJob] /\ ReleasePhone(j)
        /\ UNCHANGED <<smsClock, customer, recipient, message, sent, callback>>
    BY <1>6 DEF Die
  <2> QED
    BY <1>1, <2>1, Released, RunLetsGo
<1> QED
  BY <1>3, <1>4, <1>5, <1>6

\* Every step preserves the invariant.
LEMMA RetentionNext ==
    ASSUME RetentionAssumption, RetentionInv, [SmsNext]_smsVars
    PROVE  RetentionInv'
<1>1. ASSUME NEW j \in Jobs, JobStep(j) PROVE RetentionInv'
  <2>1. CASE DraftScan(j) \/ SelectMessages(j) \/ OutsideWindow(j) \/ EndRun(j) \/ Die(j)
    BY <2>1, RunTurns
  <2>2. CASE ClaimCommit(j)
    BY <2>2, ClaimCommitted, ClaimLost
  <2>3. ASSUME NEW k \in job[j].todo, ClaimRead(j, k) PROVE RetentionInv'
    BY <2>3, ClaimBegun
  <2> QED
    BY <1>1, <2>1, <2>2, <2>3, DraftsCreated, ClaimSkipped, Rechecked, Submitted, Refused,
       RefusalSuppresses, Recorded DEF JobStep
<1>2. ASSUME NEW p \in Phones, Stop(p) PROVE RetentionInv'
  BY <1>2, PhoneSuppressed, OptOutWritten DEF Stop
<1>3. ASSUME NEW i \in DOMAIN sent, ProviderAdvances(i) PROVE RetentionInv'
  BY <1>3, Advanced
<1>4. ASSUME NEW c \in Callbacks, NEW i \in DOMAIN sent, NEW s \in Reported(i),
             CallbackRead(c, i, s) PROVE RetentionInv'
  BY <1>4, ReadByCallback
<1>5. ASSUME NEW c \in Callbacks, CallbackWrite(c) PROVE RetentionInv'
  BY <1>5, WrittenByCallback
<1>6. CASE (\E c \in Customers : OrderDelivered(c)) \/ Tick \/ UNCHANGED smsVars
  BY <1>6, Elsewhere
<1> QED
  BY <1>1, <1>2, <1>3, <1>4, <1>5, <1>6 DEF SmsNext

-----------------------------------------------------------------------------
\* The rows, the runs, the submissions and the callbacks keep their types.
THEOREM RetentionTypes ==
    ASSUME RetentionAssumption
    PROVE  SmsSpec => []SmsTypeOK
<1>1. RetentionInv => SmsTypeOK
  BY DEF RetentionInv, Typed, SmsTypeOK
<1>2. SmsInit => RetentionInv
  BY RetentionInit
<1>3. RetentionInv /\ [SmsNext]_smsVars => RetentionInv'
  BY RetentionNext
<1> QED
  BY <1>1, <1>2, <1>3, PTL DEF SmsSpec

\* No message is submitted twice and no phone is attempted twice within ninety days,
\* however many runs overlap and wherever they die (retentionSms.service.ts:69-116).
THEOREM AttemptedOnce ==
    ASSUME RetentionAssumption
    PROVE  SmsSpec => []OneAttempt
<1>1. RetentionInv => OneAttempt
  BY DEF RetentionInv, OneAttempt
<1>2. SmsInit => RetentionInv
  BY RetentionInit
<1>3. RetentionInv /\ [SmsNext]_smsVars => RetentionInv'
  BY RetentionNext
<1> QED
  BY <1>1, <1>2, <1>3, PTL DEF SmsSpec

\* A step writes the recipient rows only to remember an attempt or an opt-out.
LEMMA StopsKept ==
    ASSUME RetentionAssumption, RetentionInv, SmsNext, NEW p \in Phones, recipient[p].optedOut
    PROVE  recipient'[p].optedOut
<1>1. ASSUME NEW j \in Jobs, JobStep(j) PROVE recipient'[p].optedOut
  <2>1. CASE ClaimCommit(j)
    BY <2>1 DEF ClaimCommit, RetentionInv, Typed, Recipient
  <2>2. CASE SuppressAfterRefusal(j)
    BY <2>2 DEF SuppressAfterRefusal, Suppress, RetentionInv, Typed, Recipient
  <2>3. CASE recipient' = recipient
    BY <2>3
  <2> QED
    BY <1>1, <2>1, <2>2, <2>3
    DEF JobStep, DraftScan, CreateDrafts, SelectMessages, OutsideWindow, EndRun, ClaimRead,
        ClaimSkip, Recheck, SendTaken, SendRefused, Record, Die
<1>2. ASSUME NEW q \in Phones, Stop(q) PROVE recipient'[p].optedOut
  BY <1>2 DEF Stop, Suppress, RetentionInv, Typed, Recipient
<1> QED
  BY <1>1, <1>2 DEF SmsNext, ProviderAdvances, CallbackRead, CallbackWrite, OrderDelivered, Tick

\* A run comes to a submission only by its final check.
LEMMA ChecksBeforeSends ==
    ASSUME RetentionAssumption, RetentionInv, SmsNext, NEW j \in Jobs,
           job'[j].pc = "send", job'[j] # job[j]
    PROVE  Recheck(j) /\ job'[j].key = job[j].key
                      /\ ~recipient[PhoneOf[job[j].key[1]]].optedOut
<1>1. job[j] \in Job /\ job \in [Jobs -> Job]
  BY DEF RetentionInv, Typed
<1>2. PICK l \in Jobs : JobStep(l)
  BY DEF SmsNext, Stop, ProviderAdvances, CallbackRead, CallbackWrite, OrderDelivered, Tick
<1>3. ASSUME NextMessage(l) PROVE FALSE
  <2>1. job' = [job EXCEPT ![l] = [IdleJob EXCEPT !.pc = "next", !.now = job[l].now,
                                                 !.todo = job[l].todo]]
    BY <1>3 DEF NextMessage
  <2> QED
    BY <1>1, <2>1 DEF IdleJob
<1>4. CASE Recheck(l)
  BY <1>1, <1>3, <1>4 DEF Recheck, Advance, Job
<1>5. CASE ~Recheck(l)
  <2>1. job' = [job EXCEPT ![l] = job'[l]] /\ job'[l].pc # "send"
    <3>1. CASE CreateDrafts(l) \/ ClaimCommit(l) \/ SuppressAfterRefusal(l)
      BY <3>1, <1>1, <1>3 DEF CreateDrafts, ClaimCommit, SuppressAfterRefusal, Advance, Job
    <3>2. CASE ClaimSkip(l) \/ Record(l)
      BY <3>2, <1>3 DEF ClaimSkip, Record
    <3>3. CASE DraftScan(l)
      BY <3>3, <1>1 DEF DraftScan, IdleJob
    <3>4. CASE SelectMessages(l)
      BY <3>4, <1>1 DEF SelectMessages, Job
    <3>5. CASE OutsideWindow(l) \/ EndRun(l) \/ Die(l)
      BY <3>5, <1>1 DEF OutsideWindow, EndRun, Die, IdleJob
    <3>6. CASE \E k \in job[l].todo : ClaimRead(l, k)
      BY <3>6, <1>1 DEF ClaimRead, Job
    <3>7. CASE SendTaken(l)
      BY <3>7, <1>1 DEF SendTaken, Job
    <3>8. CASE SendRefused(l)
      BY <3>8, <1>1 DEF SendRefused, Job
    <3> QED
      BY <1>2, <1>5, <3>1, <3>2, <3>3, <3>4, <3>5, <3>6, <3>7, <3>8 DEF JobStep
  <2> QED
    BY <2>1, <1>1
<1> QED
  BY <1>4, <1>5

\* A row with a provider id is written again only by a callback about a later status.
LEMMA NewerEvidenceOnly ==
    ASSUME RetentionAssumption, RetentionInv, SmsNext,
           NEW k \in DOMAIN message, message[k].providerMessageId # 0, message'[k] # message[k]
    PROVE  /\ message'[k].providerMessageId = message[k].providerMessageId
           /\ deliveryRank[message[k].providerStatus] < deliveryRank[message'[k].providerStatus]
<1>1. message \in [DOMAIN message -> Message] /\ message[k] \in Message
  BY DEF RetentionInv, Typed
<1>2. message[k].attemptedAt # Never
  BY DEF RetentionInv, IdsNamed
<1>3. ASSUME NEW j \in Jobs, JobStep(j) PROVE message'[k] = message[k]
  <2>1. CASE CreateDrafts(j)
    BY <2>1 DEF CreateDrafts
  <2>2. CASE ClaimSkip(j)
    BY <2>2, <1>1, <1>2 DEF ClaimSkip, Drafts
  <2>3. CASE ClaimCommit(j)
    BY <2>3, <1>1, <1>2 DEF ClaimCommit, Drafts
  <2>4. CASE Recheck(j)
    BY <2>4, <1>1, NoIdYet DEF Recheck, At, Unsent
  <2>5. CASE Record(j)
    BY <2>5, <1>1 DEF Record
  <2>6. CASE message' = message
    BY <2>6
  <2> QED
    BY <1>3, <2>1, <2>2, <2>3, <2>4, <2>5, <2>6
    DEF JobStep, DraftScan, SelectMessages, OutsideWindow, EndRun, ClaimRead, SendTaken,
        SendRefused, SuppressAfterRefusal, Die
<1>4. PICK c \in Callbacks : CallbackWrite(c)
  BY <1>3 DEF SmsNext, Stop, Suppress, ProviderAdvances, CallbackRead, OrderDelivered, Tick
<1> DEFINE b == callback[c]
<1>5. /\ k = sent[b.sid].key
      /\ message[k].providerStatus = b.readStatus /\ message[k].providerMessageId = b.readId
      /\ message'[k].providerMessageId = b.sid /\ message'[k].providerStatus = b.status
  BY <1>1, <1>4 DEF CallbackWrite, Message
<1>6. b.readId = b.sid /\ deliveryRank[b.readStatus] < deliveryRank[b.status]
  BY <1>4, <1>5 DEF CallbackWrite, RetentionInv, IdsNamed
<1> HIDE DEF b
<1> QED
  BY <1>5, <1>6

\* Once a STOP is recorded no run begins a submission to that phone, and newer evidence
\* of a delivery is never overwritten (retentionSms.service.ts:93-98, 120-138).
THEOREM StopAndEvidenceHold ==
    ASSUME RetentionAssumption
    PROVE  SmsSpec => StopAndEvidenceKept
<1>1. SmsInit => RetentionInv
  BY RetentionInit
<1>2. RetentionInv /\ [SmsNext]_smsVars => RetentionInv'
  BY RetentionNext
<1>3. RetentionInv /\ [SmsNext]_smsVars => [StopHeeded /\ EvidenceKept]_smsVars
  <2> SUFFICES ASSUME RetentionInv, SmsNext PROVE StopHeeded /\ EvidenceKept
    OBVIOUS
  <2>1. ASSUME NEW j \in Jobs, NEW p \in Phones, recipient[p].optedOut, Sending(j, p)'
        PROVE  Sending(j, p)
    BY <2>1, ChecksBeforeSends DEF Sending, At
  <2>2. StopHeeded
    BY <2>1, StopsKept DEF StopHeeded
  <2>3. \A k \in DOMAIN message : deliveryRank[message'[k].providerStatus] >
                                      deliveryRank[message[k].providerStatus]
            <=> deliveryRank[message[k].providerStatus] <
                                      deliveryRank[message'[k].providerStatus]
    OBVIOUS
  <2>4. EvidenceKept
    BY <2>3, NewerEvidenceOnly DEF EvidenceKept
  <2> QED
    BY <2>2, <2>4
<1> QED
  BY <1>1, <1>2, <1>3, PTL DEF SmsSpec, StopAndEvidenceKept

-----------------------------------------------------------------------------
(***************************************************************************)
(* The session log                                                         *)
(***************************************************************************)
\* What the room made in a full buffer, and an entry put into it, hold.
LEMMA PutKeeps ==
    ASSUME Log!SessionLogAssumption, NEW q \in Seq(Events), NEW k \in Events
    PROVE  /\ Log!Put(q, k) \in Seq(Events)
           /\ Log!ToSet(q) \cup {k} \subseteq
                  Log!ToSet(Log!Put(q, k)) \cup (IF Len(q) >= MaxBuffer THEN {Head(q)} ELSE {})
<1> DEFINE room == Log!Room(q)
<1>1. /\ room \in Seq(Events)
      /\ Log!ToSet(q) \subseteq
             Log!ToSet(room) \cup (IF Len(q) >= MaxBuffer THEN {Head(q)} ELSE {})
  <2>1. CASE Len(q) >= MaxBuffer
    <3>1. q # <<>> /\ MaxBuffer \in Nat \ {0}
      BY <2>1 DEF Log!SessionLogAssumption
    <3>2. /\ Tail(q) \in Seq(Events) /\ Len(Tail(q)) = Len(q) - 1
          /\ \A i \in 1 .. Len(Tail(q)) : Tail(q)[i] = q[i + 1]
      BY <3>1, HeadTailProperties
    <3>3. \A i \in DOMAIN q : q[i] = Head(q) \/ q[i] \in Log!ToSet(Tail(q))
      <4> TAKE i \in DOMAIN q
      <4>1. CASE i = 1
        BY <4>1
      <4>2. CASE i # 1
        <5>1. i - 1 \in DOMAIN Tail(q) /\ Tail(q)[i - 1] = q[i]
          BY <4>2, <3>2
        <5> QED
          BY <5>1, Zenon DEF Log!ToSet
      <4> QED
        BY <4>1, <4>2
    <3> QED
      BY <2>1, <3>2, <3>3 DEF Log!Room, Log!ToSet
  <2>2. CASE ~(Len(q) >= MaxBuffer)
    BY <2>2 DEF Log!Room
  <2> QED
    BY <2>1, <2>2
<1> HIDE DEF room
<1>2. CASE Log!Contains(room, k)
  <2>1. Log!Put(q, k) = room /\ k \in Log!ToSet(room)
    BY <1>1, <1>2 DEF Log!Put, room, Log!Contains, Log!ToSet
  <2> QED
    BY <1>1, <2>1
<1>3. CASE ~Log!Contains(room, k)
  <2>1. Log!Put(q, k) = Append(room, k)
    BY <1>3 DEF Log!Put, room
  <2>2. /\ Append(room, k) \in Seq(Events) /\ Len(Append(room, k)) = Len(room) + 1
        /\ \A i \in 1 .. Len(room) : Append(room, k)[i] = room[i]
        /\ Append(room, k)[Len(room) + 1] = k
    BY <1>1, AppendProperties
  <2>3. Log!ToSet(room) \cup {k} \subseteq Log!ToSet(Append(room, k))
    <3>1. DOMAIN room = 1 .. Len(room) /\ DOMAIN Append(room, k) = 1 .. (Len(room) + 1)
          /\ Len(room) \in Nat
      BY <1>1, <2>2
    <3> QED
      BY <2>2, <3>1 DEF Log!ToSet
  <2> QED
    BY <1>1, <2>1, <2>2, <2>3
<1> QED
  BY <1>2, <1>3

\* Deleting a key from the buffer deletes nothing else.
LEMMA DropKeeps ==
    ASSUME NEW q \in Seq(Events), NEW k \in Events
    PROVE  /\ Log!Drop(q, k) \in Seq(Events)
           /\ Log!ToSet(q) \subseteq Log!ToSet(Log!Drop(q, k)) \cup {k}
<1>1. CASE Log!Contains(q, k)
  <2> DEFINE n == CHOOSE i \in DOMAIN q : q[i] = k
             a == SubSeq(q, 1, n - 1)
             b == SubSeq(q, n + 1, Len(q))
  <2>1. n \in 1 .. Len(q) /\ q[n] = k
    BY <1>1 DEF Log!Contains
  <2>2. Log!Drop(q, k) = a \o b
    BY <1>1 DEF Log!Drop, Log!RemoveAt
  <2> HIDE DEF n
  <2>3. /\ a \in Seq(Events) /\ Len(a) = n - 1
        /\ \A i \in 1 .. (n - 1) : a[i] = q[i]
    <3>1. n - 1 - 1 + 1 = n - 1
      BY <2>1
    <3>2. \A i \in 1 .. n - 1 : i \in 1 .. Len(q)
      BY <2>1
    <3>3. 1 \in 1 .. Len(q) + 1 /\ n - 1 \in 0 .. Len(q)
      BY <2>1
    <3>4. /\ a \in Seq(Events)
          /\ Len(a) = IF 1 <= n - 1 THEN n - 1 - 1 + 1 ELSE 0
          /\ \A i \in 1 .. n - 1 - 1 + 1 : a[i] = q[1 + i - 1]
      BY <3>3, <2>1, SubSeqProperties
    <3> QED
      BY <3>1, <3>4, <2>1
  <2>4. /\ b \in Seq(Events) /\ Len(b) = Len(q) - n
        /\ \A i \in 1 .. (Len(q) - n) : b[i] = q[n + i]
    <3>3. n + 1 \in 1 .. Len(q) + 1 /\ Len(q) \in 0 .. Len(q)
      BY <2>1
    <3>4. /\ b \in Seq(Events)
          /\ Len(b) = IF n + 1 <= Len(q) THEN Len(q) - (n + 1) + 1 ELSE 0
          /\ \A i \in 1 .. Len(q) - (n + 1) + 1 : b[i] = q[n + 1 + i - 1]
      BY <3>3, <2>1, SubSeqProperties
    <3> QED
      BY <3>4, <2>1
  <2> HIDE DEF a, b
  <2>5. /\ a \o b \in Seq(Events) /\ Len(a \o b) = Len(a) + Len(b)
        /\ \A i \in 1 .. Len(a) + Len(b) :
               (a \o b)[i] = IF i <= Len(a) THEN a[i] ELSE b[i - Len(a)]
    BY <2>3, <2>4, ConcatProperties
  <2>6. \A i \in DOMAIN q : q[i] = k \/ q[i] \in Log!ToSet(a \o b)
    <3> TAKE i \in DOMAIN q
    <3>1. DOMAIN (a \o b) = 1 .. (Len(a) + Len(b))
      BY <2>5
    <3>2. CASE i = n
      BY <3>2, <2>1
    <3>3. CASE i < n
      <4>1. i \in DOMAIN (a \o b) /\ (a \o b)[i] = q[i]
        <5>1. Len(q) \in Nat /\ i \in 1 .. n - 1 /\ i \in 1 .. Len(a) + Len(b) /\ i <= Len(a)
          BY <3>3, <2>1, <2>3, <2>4
        <5> QED
          BY <5>1, <3>1, <2>3, <2>5
      <4> QED
        BY <4>1, Zenon DEF Log!ToSet
    <3>4. CASE i > n
      <4>1. i - 1 \in DOMAIN (a \o b) /\ (a \o b)[i - 1] = q[i]
        <5>1. /\ Len(q) \in Nat /\ i - n \in 1 .. (Len(q) - n) /\ n + (i - n) = i
              /\ i - 1 \in 1 .. Len(a) + Len(b) /\ ~(i - 1 <= Len(a))
              /\ (i - 1) - Len(a) = i - n
          <6>1. n \in Nat /\ Len(q) \in Nat /\ i \in 1 .. Len(q)
            BY <2>1
          <6>2. Len(a) = n - 1 /\ Len(b) = Len(q) - n
            BY <2>3, <2>4
          <6> QED
            BY <6>1, <6>2, <3>4
        <5> QED
          BY <5>1, <3>1, <2>4, <2>5
      <4> QED
        BY <4>1, Zenon DEF Log!ToSet
    <3> QED
      BY <3>2, <3>3, <3>4, <2>1
  <2> QED
    BY <2>2, <2>5, <2>6 DEF Log!ToSet
<1>2. CASE ~Log!Contains(q, k)
  BY <1>2 DEF Log!Drop
<1> QED
  BY <1>1, <1>2

\* The buffer, the write under way, and that nothing recorded is lost.
LogInv ==
    /\ queue \in Seq(Events)
    /\ writing \in Events \cup {Log!Nothing}
    /\ evicted \subseteq Events
    /\ SavedOrBuffered

LEMMA LogStarts == Log!Init => LogInv
BY DEF Log!Init, LogInv, SavedOrBuffered, Log!SavedOrBuffered, Log!ToSet

LEMMA LogGoesOn ==
    ASSUME Log!SessionLogAssumption, LogInv, [Log!Next]_Log!vars
    PROVE  LogInv'
<1> USE DEF LogInv, SavedOrBuffered, Log!SavedOrBuffered
<1>1. ASSUME NEW k \in Events, Log!recordSessionEvent(k)
      PROVE  LogInv'
  <2>1. /\ queue' = Log!Put(queue, k)
        /\ evicted' = evicted \cup (IF Len(queue) >= MaxBuffer THEN {Head(queue)} ELSE {})
        /\ recorded' = recorded \cup {k}
        /\ writing' = writing /\ saved' = saved
    BY <1>1 DEF Log!recordSessionEvent
  <2>2. Len(queue) >= MaxBuffer => Head(queue) \in Events
    BY DEF Log!SessionLogAssumption
  <2>3. /\ queue' \in Seq(Events)
        /\ Log!ToSet(queue) \cup {k} \subseteq
               Log!ToSet(queue') \cup (IF Len(queue) >= MaxBuffer THEN {Head(queue)} ELSE {})
    BY <2>1, PutKeeps
  <2>4. recorded' \subseteq saved' \cup evicted' \cup Log!ToSet(queue')
    BY <2>1, <2>3, Zenon
  <2>5. Log!ToSet(queue)' = Log!ToSet(queue')
    BY DEF Log!ToSet
  <2> QED
    BY <2>1, <2>2, <2>3, <2>4, <2>5
<1>2. CASE Log!Written
  <2>1. /\ saved' = saved \cup {writing} /\ queue' = Log!Drop(queue, writing)
        /\ writing \in Events /\ evicted' = evicted /\ recorded' = recorded
        /\ writing' = IF queue' = <<>> THEN Log!Nothing ELSE Head(queue')
    BY <1>2 DEF Log!Written
  <2>2. /\ queue' \in Seq(Events)
        /\ Log!ToSet(queue) \subseteq Log!ToSet(queue') \cup {writing}
    BY <2>1, DropKeeps
  <2>3. writing' \in Events \cup {Log!Nothing}
    BY <2>1, <2>2
  <2>4. recorded' \subseteq saved' \cup evicted' \cup Log!ToSet(queue')
    BY <2>1, <2>2, Zenon
  <2>5. Log!ToSet(queue)' = Log!ToSet(queue')
    BY DEF Log!ToSet
  <2> QED
    BY <2>1, <2>2, <2>3, <2>4, <2>5
<1>3. CASE Log!Forget \/ Log!Flush \/ Log!WriteFails \/ UNCHANGED Log!vars
  <2>1. /\ queue' = queue /\ saved' = saved /\ evicted' = evicted /\ recorded' = recorded
    BY <1>3 DEF Log!Forget, Log!Flush, Log!WriteFails, Log!vars
  <2>2. writing' \in Events \cup {Log!Nothing}
    BY <1>3 DEF Log!Forget, Log!Flush, Log!WriteFails, Log!vars
  <2> QED
    BY <2>1, <2>2 DEF Log!ToSet
<1> QED
  BY <1>1, <1>2, <1>3 DEF Log!Next

\* For any number of events, any size of the buffer and any number of interruptions,
\* an event that was recorded is saved, buffered, or was pushed out of a full buffer.
THEOREM LogLosesNothing == Log!Spec => []SavedOrBuffered
<1> USE BackgroundAssumption
<1>1. Log!Init => LogInv
  BY LogStarts
<1>2. LogInv /\ [Log!Next]_Log!vars => LogInv'
  BY LogGoesOn DEF BackgroundAssumption
<1>3. LogInv => SavedOrBuffered
  BY DEF LogInv
<1> QED
  BY <1>1, <1>2, <1>3, PTL DEF Log!Spec

-----------------------------------------------------------------------------
(***************************************************************************)
(* The live board                                                          *)
(***************************************************************************)
\* g shows no order at an earlier stage than f does.
NoEarlier(f, g) ==
    \A o \in DOMAIN f \cap DOMAIN g : Board!Rank[f[o]] <= Board!Rank[g[o]]

Shows == UNION {[D -> Board!Stages] : D \in SUBSET Board!Placed}

Requests ==
    [pc : {"idle", "asked", "refused", "operation"}, token : Nat, background : BOOLEAN,
     update : BOOLEAN, page : Nat, pages : Nat,
     rows : {<<>>} \cup {<<f>> : f \in Shows}, got : Shows]

Alarms == [enabled : BOOLEAN, initialized : BOOLEAN,
           seen : SUBSET Board!Placed, pending : SUBSET Board!Placed]

BoardTypes ==
    /\ life \in [Board!Placed -> Board!Stages]
    /\ board \in Shows
    /\ token \in Nat /\ session \in Nat
    /\ slot \in [1 .. Slots -> Requests]
    /\ alarm \in Alarms

\* What a request was answered is not ahead of the server.
Answered(q) == NoEarlier(q.got, life) /\ (q.rows # <<>> => NoEarlier(q.rows[1], life))

\* What it was answered is not behind the board.
Ahead(q) ==
    q.pc = "asked" => NoEarlier(board, q.got) /\ (q.rows # <<>> => NoEarlier(board, q.rows[1]))

\* The board is not ahead of the server, and not of the current request, by which
\* alone it can be replaced.
BoardInv ==
    /\ BoardTypes
    /\ NoEarlier(board, life)
    /\ \A s \in 1 .. Slots : Answered(slot[s]) /\ (latest = s => Ahead(slot[s]))

LEMMA Ranks ==
    /\ Board!Rank["unborn"] = 0 /\ Board!Rank["placed"] = 1
    /\ Board!Rank["accepted"] = 2 /\ Board!Rank["ended"] = 3
    /\ \A x \in Board!Stages : Board!Rank[x] \in 0 .. 3
BY DEF Board!Rank, Board!Stages

LEMMA NothingShown ==
    /\ Board!NoOrders \in Shows
    /\ \A f : NoEarlier(f, Board!NoOrders) /\ NoEarlier(Board!NoOrders, f)
<1>1. DOMAIN Board!NoOrders = {}
  BY DEF Board!NoOrders
<1>2. Board!NoOrders \in [{} -> Board!Stages]
  BY DEF Board!NoOrders
<1> QED
  BY <1>1, <1>2 DEF Shows, NoEarlier

\* A later page joins the orders it has no newer row for.
LEMMA JoinShows ==
    ASSUME NEW f \in Shows, NEW g \in Shows
    PROVE  /\ Board!Joined(f, g) \in Shows
           /\ \A h \in Shows :
                 NoEarlier(h, f) /\ NoEarlier(h, g) => NoEarlier(h, Board!Joined(f, g))
           /\ \A h \in Shows :
                 NoEarlier(f, h) /\ NoEarlier(g, h) => NoEarlier(Board!Joined(f, g), h)
<1>1. PICK D \in SUBSET Board!Placed : f \in [D -> Board!Stages]
  BY DEF Shows
<1>2. PICK E \in SUBSET Board!Placed : g \in [E -> Board!Stages]
  BY DEF Shows
<1>3. Board!Joined(f, g) = [o \in D \cup E |-> IF o \in D THEN f[o] ELSE g[o]]
  BY <1>1, <1>2 DEF Board!Joined
<1>4. Board!Joined(f, g) \in [D \cup E -> Board!Stages]
  BY <1>1, <1>2, <1>3
<1> QED
  BY <1>1, <1>2, <1>3, <1>4 DEF Shows, NoEarlier

LEMMA NewRequests ==
    /\ Board!Idle \in Requests /\ Board!Idle.rows = <<>> /\ Board!Idle.got = Board!NoOrders
    /\ \A t \in Nat : \A b, u \in BOOLEAN :
          LET q == Board!Request(t, b, u)
          IN  q \in Requests /\ q.rows = <<>> /\ q.got = Board!NoOrders
    /\ \A t \in Nat :
          LET q == [Board!Idle EXCEPT !.pc = "operation", !.token = t]
          IN  q \in Requests /\ q.rows = <<>> /\ q.got = Board!NoOrders
<1>1. Board!Idle \in Requests /\ Board!Idle.rows = <<>> /\ Board!Idle.got = Board!NoOrders
  BY NothingShown DEF Board!Idle, Requests
<1>2. ASSUME NEW q \in Requests, NEW t \in Nat
      PROVE  LET p == [q EXCEPT !.pc = "operation", !.token = t]
             IN  p \in Requests /\ p.rows = q.rows /\ p.got = q.got
  BY DEF Requests
<1>3. ASSUME NEW t \in Nat, NEW b \in BOOLEAN, NEW u \in BOOLEAN
      PROVE  LET q == Board!Request(t, b, u)
             IN  q \in Requests /\ q.rows = <<>> /\ q.got = Board!NoOrders
  <2> DEFINE p == [Board!Idle EXCEPT !.pc = "asked", !.token = t, !.background = b,
                                     !.update = u, !.page = 1]
  <2>1. p = Board!Request(t, b, u)
    BY DEF Board!Request
  <2>2. p \in Requests /\ p.rows = Board!Idle.rows /\ p.got = Board!Idle.got
    BY <1>1 DEF Requests
  <2> HIDE DEF p
  <2> QED
    BY <1>1, <2>1, <2>2, Zenon
<1>4. ASSUME NEW t \in Nat
      PROVE  LET q == [Board!Idle EXCEPT !.pc = "operation", !.token = t]
             IN  q \in Requests /\ q.rows = <<>> /\ q.got = Board!NoOrders
  BY <1>1, <1>2, Zenon
<1> QED
  BY <1>1, <1>3, <1>4, Zenon

\* A request that has no answer yet is not ahead of the server, nor behind the board.
Blank(q) == q \in Requests /\ q.rows = <<>> /\ q.got = Board!NoOrders

LEMMA BlankIsSound ==
    ASSUME NEW q, Blank(q)
    PROVE  Answered(q) /\ Ahead(q) /\ Answered(q)' /\ Ahead(q)'
BY NothingShown, Zenon DEF Blank, Answered, Ahead

\* A step of the browser that replaces the request in one slot by one without an answer.
LEMMA SlotRenewed ==
    ASSUME BoardInv, NEW s \in 1 .. Slots, NEW q, Blank(q),
           slot' = [slot EXCEPT ![s] = q], latest' \in {latest, s, Board!None},
           UNCHANGED <<life, board, alarm>>, token' \in Nat, session' \in Nat
    PROVE  BoardInv'
<1>1. slot' \in [1 .. Slots -> Requests]
  BY DEF BoardInv, BoardTypes, Blank
<1>2. BoardTypes'
  BY <1>1 DEF BoardInv, BoardTypes
<1>3. NoEarlier(board, life)'
  BY DEF BoardInv, NoEarlier
<1>4. ASSUME NEW r \in 1 .. Slots
      PROVE  Answered(slot[r])' /\ (latest' = r => Ahead(slot[r])')
  <2>1. CASE r = s
    <3>1. slot'[r] = q
      BY <2>1 DEF BoardInv, BoardTypes
    <3>2. Answered(q)' /\ Ahead(q)'
      BY BlankIsSound
    <3> QED
      BY <3>1, <3>2 DEF Answered, Ahead
  <2>2. CASE r # s
    <3>1. slot'[r] = slot[r]
      BY <2>2 DEF BoardInv, BoardTypes
    <3>2. Answered(slot[r]) /\ (latest = r => Ahead(slot[r]))
      BY DEF BoardInv
    <3>3. latest' = r => latest = r
      BY <2>2 DEF Board!None
    <3> QED
      BY <3>1, <3>2, <3>3 DEF Answered, Ahead, NoEarlier
  <2> QED
    BY <2>1, <2>2
<1> QED
  BY <1>2, <1>3, <1>4 DEF BoardInv

\* What becomes of the alarm: it stays, falls silent, or answers a list of orders.
LEMMA AlarmSteps ==
    ASSUME NEW a \in Alarms
    PROVE  /\ \A e \in BOOLEAN : Board!NewAlarm(e) \in Alarms /\ Board!NewAlarm(e).pending = {}
           /\ [a EXCEPT !.pending = {}] \in Alarms /\ [a EXCEPT !.pending = {}].pending = {}
           /\ LET t == [a EXCEPT !.enabled = ~@, !.pending = {}]
              IN  t \in Alarms /\ t.pending = {}
           /\ \A f \in Shows :
                 /\ Board!Snapshot(a, f) \in Alarms
                 /\ \A o \in a.seen \ a.pending : o \notin Board!Snapshot(a, f).pending
<1>1. \A e \in BOOLEAN : Board!NewAlarm(e) \in Alarms /\ Board!NewAlarm(e).pending = {}
  BY DEF Board!NewAlarm, Alarms
<1>2. [a EXCEPT !.pending = {}] \in Alarms /\ [a EXCEPT !.pending = {}].pending = {}
  BY DEF Alarms
<1>3. LET t == [a EXCEPT !.enabled = ~@, !.pending = {}]
      IN  t \in Alarms /\ t.pending = {}
  BY DEF Alarms
<1>4. ASSUME NEW f \in Shows
      PROVE  /\ Board!Snapshot(a, f) \in Alarms
             /\ \A o \in a.seen \ a.pending : o \notin Board!Snapshot(a, f).pending
  <2>1. DOMAIN f \subseteq Board!Placed
    BY DEF Shows
  <2>2. /\ a.enabled \in BOOLEAN /\ a.initialized \in BOOLEAN
        /\ a.seen \subseteq Board!Placed /\ a.pending \subseteq Board!Placed
    BY DEF Alarms
  <2>3. /\ Board!Snapshot(a, f).enabled = a.enabled
        /\ Board!Snapshot(a, f).pending \subseteq
               DOMAIN f \cap (a.pending \cup (DOMAIN f \ a.seen))
    BY DEF Board!Snapshot
  <2>4. Board!Snapshot(a, f) \in Alarms
    BY <2>1, <2>2 DEF Board!Snapshot, Alarms
  <2> QED
    BY <2>3, <2>4
<1> QED
  BY <1>1, <1>2, <1>3, <1>4

\* A step of the page that hands the alarm orders, silences it, or leaves it.
LEMMA ScreenChanges ==
    ASSUME BoardInv, UNCHANGED <<life, slot>>, latest' \in {latest, Board!None},
           token' \in Nat, session' \in Nat, alarm' \in Alarms,
           board' \in {board, Board!NoOrders}
    PROVE  BoardInv'
<1>1. BoardTypes'
  BY NothingShown DEF BoardInv, BoardTypes, Alarms
<1>2. \A f : NoEarlier(board, f) => NoEarlier(board', f)
  BY NothingShown
<1>3. NoEarlier(board, life)'
  BY <1>2 DEF BoardInv, NoEarlier
<1>4. ASSUME NEW r \in 1 .. Slots
      PROVE  Answered(slot[r])' /\ (latest' = r => Ahead(slot[r])')
  <2>1. Answered(slot[r]) /\ (latest = r => Ahead(slot[r]))
    BY DEF BoardInv
  <2>2. Answered(slot[r])'
    BY <2>1 DEF Answered, NoEarlier
  <2>3. ASSUME latest' = r
        PROVE  Ahead(slot[r])'
    <3>1. Ahead(slot[r])
      BY <2>1, <2>3 DEF Board!None
    <3>2. ASSUME slot[r].pc = "asked"
          PROVE  /\ NoEarlier(board', slot[r].got)
                 /\ slot[r].rows # <<>> => NoEarlier(board', slot[r].rows[1])
      BY <1>2, <3>1, <3>2 DEF Ahead
    <3> QED
      BY <3>2 DEF Ahead, NoEarlier
  <2> QED
    BY <2>2, <2>3
<1> QED
  BY <1>1, <1>3, <1>4 DEF BoardInv

\* The server's orders move on, and what was answered before does not.
LEMMA OrdersMoveOn ==
    ASSUME BoardInv, life' \in [Board!Placed -> Board!Stages],
           \A o \in Board!Placed : Board!Rank[life[o]] <= Board!Rank[life'[o]],
           UNCHANGED <<slot, latest, board, alarm, token, session>>
    PROVE  BoardInv'
<1>1. BoardTypes'
  BY DEF BoardInv, BoardTypes
<1>2. ASSUME NEW f \in Shows, NoEarlier(f, life)
      PROVE  NoEarlier(f, life')
  <2>1. PICK D \in SUBSET Board!Placed : f \in [D -> Board!Stages]
    BY DEF Shows
  <2>2. ASSUME NEW o \in D
        PROVE  Board!Rank[f[o]] <= Board!Rank[life'[o]]
    <3>1. f[o] \in Board!Stages /\ life[o] \in Board!Stages /\ life'[o] \in Board!Stages
      BY <2>1, <2>2 DEF BoardInv, BoardTypes
    <3>2. /\ Board!Rank[f[o]] \in 0 .. 3 /\ Board!Rank[life[o]] \in 0 .. 3
          /\ Board!Rank[life'[o]] \in 0 .. 3
      BY <3>1, Ranks
    <3>3. Board!Rank[f[o]] <= Board!Rank[life[o]]
      BY <1>2, <2>1, <2>2 DEF NoEarlier, BoardInv, BoardTypes
    <3> QED
      BY <3>2, <3>3
  <2> QED
    BY <2>1, <2>2 DEF NoEarlier
<1>3. NoEarlier(board, life)'
  <2>1. NoEarlier(board, life')
    BY <1>2 DEF BoardInv, BoardTypes
  <2> QED
    BY <2>1 DEF NoEarlier
<1>4. ASSUME NEW r \in 1 .. Slots
      PROVE  Answered(slot[r])' /\ (latest' = r => Ahead(slot[r])')
  <2>1. Answered(slot[r]) /\ (latest = r => Ahead(slot[r])) /\ slot[r] \in Requests
    BY DEF BoardInv, BoardTypes
  <2>2. slot[r].got \in Shows /\ (slot[r].rows # <<>> => slot[r].rows[1] \in Shows)
    BY <2>1 DEF Requests
  <2>3. NoEarlier(slot[r].got, life') /\ (slot[r].rows # <<>> => NoEarlier(slot[r].rows[1], life'))
    BY <1>2, <2>1, <2>2 DEF Answered
  <2> QED
    BY <2>1, <2>3 DEF Answered, Ahead, NoEarlier
<1> QED
  BY <1>1, <1>3, <1>4 DEF BoardInv

\* The server reads a page: it is not ahead of the server, and not behind a board
\* that is not ahead of the server.
LEMMA PageRead ==
    ASSUME Board!LiveOrdersAssumption, BoardInv, NEW s \in 1 .. Slots, Board!ListPage(s)
    PROVE  BoardInv'
<1> DEFINE view == [o \in Board!PageOf(slot[s].page) |-> life[o]]
           n == Board!Cardinality(Board!ActiveOrders)
           pages == IF n = 0 THEN 1 ELSE (n + PageSize - 1) \div PageSize
           read == [slot[s] EXCEPT !.rows = <<view>>]
           q == IF slot[s].page = 1 THEN [read EXCEPT !.pages = pages] ELSE read
<1>1. UNCHANGED <<life, session, token, latest, board, alarm>>
  BY DEF Board!ListPage, Board!server, Board!screen
<1>2. slot' = [slot EXCEPT ![s] = q]
  BY DEF Board!ListPage
<1>3. slot[s] \in Requests /\ slot[s].got \in Shows /\ slot[s].page \in Nat
  BY DEF BoardInv, BoardTypes, Requests
<1>4. view \in Shows
  <2>1. Board!PageOf(slot[s].page) \in SUBSET Board!Placed
    BY DEF Board!PageOf, Board!ActiveOrders
  <2>2. view \in [Board!PageOf(slot[s].page) -> Board!Stages]
    BY <2>1 DEF BoardInv, BoardTypes
  <2> HIDE DEF view
  <2> QED
    BY <2>1, <2>2 DEF Shows
<1>5. pages \in Nat
  <2>1. IsFiniteSet(Board!Placed)
    BY FS_Interval DEF Board!Placed, Board!LiveOrdersAssumption
  <2>2. n \in Nat
    <3>1. Cardinality(Board!ActiveOrders) \in Nat
      BY <2>1, FS_Subset, FS_CardinalityType DEF Board!ActiveOrders
    <3>2. n = Cardinality(Board!ActiveOrders)
      BY DEF Cardinality, Board!Cardinality
    <3> QED
      BY <3>1, <3>2
  <2>3. PageSize \in Nat \ {0}
    BY DEF Board!LiveOrdersAssumption
  <2> HIDE DEF n
  <2> QED
    BY <2>2, <2>3
<1>6. NoEarlier(view, life)
  <2>1. \A o \in DOMAIN view : o \in Board!Placed /\ view[o] = life[o]
    BY DEF Board!PageOf, Board!ActiveOrders
  <2>2. \A o \in Board!Placed : Board!Rank[life[o]] \in 0 .. 3
    BY Ranks DEF BoardInv, BoardTypes
  <2> QED
    BY <2>1, <2>2 DEF NoEarlier
<1>7. NoEarlier(board, view)
  <2>1. \A o \in DOMAIN view : o \in DOMAIN life /\ view[o] = life[o]
    BY DEF Board!PageOf, Board!ActiveOrders, BoardInv, BoardTypes
  <2>2. NoEarlier(board, life)
    BY DEF BoardInv
  <2> HIDE DEF view
  <2> QED
    BY <2>1, <2>2 DEF NoEarlier
<1> HIDE DEF view, pages
<1>8. /\ q \in Requests /\ q.rows = <<view>> /\ q.got = slot[s].got /\ q.pc = slot[s].pc
  <2>1. /\ read \in Requests /\ read.rows = <<view>> /\ read.got = slot[s].got
        /\ read.pc = slot[s].pc
    BY <1>3, <1>4 DEF Requests
  <2> HIDE DEF read
  <2> QED
    BY <1>5, <2>1 DEF Requests
<1> HIDE DEF q
<1>10. slot' \in [1 .. Slots -> Requests]
  BY <1>8, <1>2 DEF BoardInv, BoardTypes
<1>11. ASSUME NEW r \in 1 .. Slots
       PROVE  Answered(slot[r])' /\ (latest' = r => Ahead(slot[r])')
  <2>0. Answered(slot[r]) /\ (latest = r => Ahead(slot[r]))
    BY DEF BoardInv
  <2>1. CASE r = s
    <3>1. slot'[r] = q
      BY <2>1, <1>2 DEF BoardInv, BoardTypes
    <3>2. q.rows[1] = view
      BY <1>8
    <3>3. NoEarlier(q.got, life) /\ (latest = r /\ q.pc = "asked" => NoEarlier(board, q.got))
      BY <2>0, <2>1, <1>8 DEF Answered, Ahead
    <3> QED
      BY <1>1, <1>6, <1>7, <3>1, <3>2, <3>3 DEF Answered, Ahead, NoEarlier
  <2>2. CASE r # s
    <3>1. slot'[r] = slot[r]
      BY <2>2, <1>2 DEF BoardInv, BoardTypes
    <3> QED
      BY <1>1, <2>0, <3>1 DEF Answered, Ahead, NoEarlier
  <2> QED
    BY <2>1, <2>2
<1> QED
  BY <1>1, <1>10, <1>11 DEF BoardInv, BoardTypes, NoEarlier

\* It refuses a session, and the request reads nothing.
LEMMA PageRefused ==
    ASSUME BoardInv, NEW s \in 1 .. Slots, Board!ListRefused(s)
    PROVE  BoardInv'
<1> DEFINE q == [slot[s] EXCEPT !.pc = "refused"]
<1>1. UNCHANGED <<life, session, token, latest, board, alarm>>
  BY DEF Board!ListRefused, Board!server, Board!screen
<1>2. slot' = [slot EXCEPT ![s] = q]
  BY DEF Board!ListRefused
<1>3. q \in Requests /\ q.rows = slot[s].rows /\ q.got = slot[s].got /\ q.pc = "refused"
  <2>1. slot[s] \in Requests
    BY DEF BoardInv, BoardTypes
  <2> QED
    BY <2>1 DEF Requests
<1> HIDE DEF q
<1>4. slot' \in [1 .. Slots -> Requests]
  BY <1>2, <1>3 DEF BoardInv, BoardTypes
<1>5. ASSUME NEW r \in 1 .. Slots
      PROVE  Answered(slot[r])' /\ (latest' = r => Ahead(slot[r])')
  <2>0. Answered(slot[r]) /\ (latest = r => Ahead(slot[r]))
    BY DEF BoardInv
  <2>1. CASE r = s
    <3>1. slot'[r] = q
      BY <2>1, <1>2 DEF BoardInv, BoardTypes
    <3> QED
      BY <1>1, <1>3, <2>0, <2>1, <3>1 DEF Answered, Ahead, NoEarlier
  <2>2. CASE r # s
    <3>1. slot'[r] = slot[r]
      BY <2>2, <1>2 DEF BoardInv, BoardTypes
    <3> QED
      BY <1>1, <2>0, <3>1 DEF Answered, Ahead, NoEarlier
  <2> QED
    BY <2>1, <2>2
<1> QED
  BY <1>1, <1>4, <1>5 DEF BoardInv, BoardTypes, NoEarlier

\* A step that leaves the board or empties it, and starts no alert.
LEMMA QuietStep ==
    ASSUME BoardInv, board' \in {board, Board!NoOrders},
           alarm' = alarm \/ alarm'.pending = {}
    PROVE  Board!StepSound
<1>1. \A o \in DOMAIN board : Board!Rank[board[o]] \in 0 .. 3
  BY Ranks DEF BoardInv, BoardTypes, Shows
<1>2. Board!BoardMovesForward
  BY <1>1, NothingShown DEF Board!BoardMovesForward, Board!NoOrders
<1>3. Board!AlertsOnce
  BY DEF Board!AlertsOnce
<1> QED
  BY <1>2, <1>3 DEF Board!StepSound

\* A page arrives: one of a superseded request, one of several, or the last one.
LEMMA PageReceived ==
    ASSUME Board!LiveOrdersAssumption, BoardInv, NEW s \in 1 .. Slots, Board!ReceivePage(s)
    PROVE  BoardInv' /\ Board!StepSound
<1> DEFINE r == slot[s]
           got == Board!Joined(r.rows[1], r.got)
           more == [r EXCEPT !.page = @ + 1, !.rows = <<>>, !.got = got]
<1>1. /\ r.pc = "asked" /\ r.rows # <<>>
      /\ UNCHANGED <<life, session, token, latest>>
  BY DEF Board!ReceivePage, Board!server
<1>2. r \in Requests /\ r.got \in Shows /\ r.rows[1] \in Shows /\ r.page \in Nat
  BY <1>1 DEF BoardInv, BoardTypes, Requests
<1>3. Answered(r) /\ (latest = s => Ahead(r))
  BY DEF BoardInv
<1>4. board \in Shows /\ life \in Shows /\ alarm \in Alarms /\ token \in Nat /\ session \in Nat
  BY DEF BoardInv, BoardTypes, Shows
<1>5. got \in Shows /\ NoEarlier(got, life)
  BY <1>1, <1>2, <1>3, <1>4, JoinShows DEF Answered
<1>6. latest = s => NoEarlier(board, got)
  BY <1>1, <1>2, <1>3, <1>4, JoinShows DEF Ahead
<1>7. Blank(Board!Idle)
  BY NewRequests DEF Blank
<1>8. CASE slot' = [slot EXCEPT ![s] = Board!Idle] /\ UNCHANGED Board!screen
  <2>1. UNCHANGED <<board, alarm>>
    BY <1>8 DEF Board!screen
  <2>2. BoardInv'
    BY <1>1, <1>4, <1>7, <1>8, <2>1, SlotRenewed
  <2> QED
    BY <2>1, <2>2, QuietStep
<1>9. CASE latest = s /\ slot' = [slot EXCEPT ![s] = more] /\ UNCHANGED Board!screen
  <2>1. UNCHANGED <<board, alarm>>
    BY <1>9 DEF Board!screen
  <2> HIDE DEF got
  <2>2. /\ more \in Requests /\ more.rows = <<>> /\ more.got = got /\ more.pc = r.pc
    <3> DEFINE turned == [r EXCEPT !.page = @ + 1]
               emptied == [turned EXCEPT !.rows = <<>>]
    <3>1. turned \in Requests /\ turned.pc = r.pc
      BY <1>2 DEF Requests
    <3>2. more = [emptied EXCEPT !.got = got]
      BY <1>2 DEF Requests
    <3> HIDE DEF turned
    <3>3. emptied \in Requests /\ emptied.pc = r.pc /\ emptied.rows = <<>>
      BY <3>1 DEF Requests
    <3> HIDE DEF emptied
    <3> QED
      BY <1>5, <3>2, <3>3 DEF Requests
  <2> HIDE DEF more
  <2>3. slot' \in [1 .. Slots -> Requests]
    BY <1>9, <2>2 DEF BoardInv, BoardTypes
  <2>4. ASSUME NEW k \in 1 .. Slots
        PROVE  Answered(slot[k])' /\ (latest' = k => Ahead(slot[k])')
    <3>1. CASE k = s
      <4>1. slot'[k] = more
        BY <3>1, <1>9 DEF BoardInv, BoardTypes
      <4> QED
        BY <1>1, <1>5, <1>6, <1>9, <2>1, <2>2, <4>1 DEF Answered, Ahead, NoEarlier
    <3>2. CASE k # s
      <4>1. slot'[k] = slot[k] /\ Answered(slot[k]) /\ latest' # k
        BY <3>2, <1>1, <1>9 DEF BoardInv, BoardTypes
      <4> QED
        BY <1>1, <4>1 DEF Answered, NoEarlier
    <3> QED
      BY <3>1, <3>2
  <2>5. BoardInv'
    BY <1>1, <2>1, <2>3, <2>4 DEF BoardInv, BoardTypes, NoEarlier
  <2> QED
    BY <2>1, <2>5, QuietStep
<1>10. CASE /\ latest = s /\ slot' = [slot EXCEPT ![s] = Board!Idle]
            /\ IF r.update THEN Board!setOrders(got, Board!Snapshot(alarm, got))
               ELSE alarm' = Board!Snapshot(alarm, got) /\ UNCHANGED board
  <2>1. board' \in {board, got}
    BY <1>10 DEF Board!setOrders
  <2>2. \/ alarm' = Board!Snapshot(alarm, got)
        \/ alarm' = Board!Snapshot(Board!Snapshot(alarm, got), got)
    BY <1>10 DEF Board!setOrders
  <2> HIDE DEF got
  <2>3. Board!Snapshot(alarm, got) \in Alarms
    BY <1>4, <1>5, AlarmSteps
  <2>4. alarm' \in Alarms
    BY <1>5, <2>2, <2>3, AlarmSteps
  <2>5. \A o \in alarm.seen \ alarm.pending : o \notin alarm'.pending
    <3>1. \A o \in alarm.seen \ alarm.pending :
             /\ o \in Board!Snapshot(alarm, got).seen
             /\ o \notin Board!Snapshot(alarm, got).pending
      BY <1>4, <1>5, AlarmSteps DEF Board!Snapshot
    <3> QED
      BY <1>5, <2>2, <2>3, <3>1, AlarmSteps
  <2>6. NoEarlier(board, board') /\ NoEarlier(board', life)
    <3>1. NoEarlier(board, board) /\ NoEarlier(board, life)
      <4>1. \A o \in DOMAIN board : Board!Rank[board[o]] \in 0 .. 3
        BY Ranks DEF BoardInv, BoardTypes, Shows
      <4> QED
        BY <4>1 DEF NoEarlier, BoardInv
    <3> QED
      BY <1>5, <1>6, <1>10, <2>1, <3>1
  <2>7. Board!StepSound
    <3>1. \A o \in DOMAIN board \cap DOMAIN board' :
             /\ Board!Rank[board[o]] \in 0 .. 3 /\ Board!Rank[board'[o]] \in 0 .. 3
      BY <1>4, <1>5, <2>1, Ranks DEF Shows
    <3>2. Board!BoardMovesForward
      BY <2>6, <3>1 DEF NoEarlier, Board!BoardMovesForward
    <3> QED
      BY <2>5, <3>2 DEF Board!StepSound, Board!AlertsOnce
  <2>8. slot' \in [1 .. Slots -> Requests]
    BY <1>7, <1>10 DEF BoardInv, BoardTypes, Blank
  <2>9. ASSUME NEW k \in 1 .. Slots
        PROVE  Answered(slot[k])' /\ (latest' = k => Ahead(slot[k])')
    <3>1. CASE k = s
      <4>1. slot'[k] = Board!Idle
        BY <3>1, <1>10 DEF BoardInv, BoardTypes
      <4>2. Answered(Board!Idle)' /\ Ahead(Board!Idle)'
        BY <1>7, BlankIsSound
      <4> QED
        BY <4>1, <4>2 DEF Answered, Ahead
    <3>2. CASE k # s
      <4>1. slot'[k] = slot[k] /\ Answered(slot[k]) /\ latest' # k
        BY <3>2, <1>1, <1>10 DEF BoardInv, BoardTypes
      <4> QED
        BY <1>1, <4>1 DEF Answered, NoEarlier
    <3> QED
      BY <3>1, <3>2
  <2>10. BoardTypes'
    BY <1>1, <1>4, <1>5, <2>1, <2>4, <2>8 DEF BoardInv, BoardTypes
  <2>11. NoEarlier(board, life)'
    BY <1>1, <2>6 DEF NoEarlier
  <2> QED
    BY <2>7, <2>9, <2>10, <2>11 DEF BoardInv
<1> QED
  BY <1>8, <1>9, <1>10 DEF Board!ReceivePage, Board!Current

\* A request begins, fails, or is refused after it was superseded.
LEMMA RequestSteps ==
    ASSUME Board!LiveOrdersAssumption, BoardInv, NEW s \in 1 .. Slots,
           \/ Board!CheckOrders(s) \/ Board!Operate(s) \/ Board!OperationAnswered(s)
           \/ Board!FetchFails(s) \/ Board!handleLogin(s)
           \/ Board!SessionRefused(s) /\ ~Board!Current(s)
    PROVE  BoardInv' /\ Board!StepSound
<1> DEFINE refresh == Board!Request(token, TRUE, ~paused)
           answer == Board!Request(slot[s].token, FALSE, TRUE)
           operation == [Board!Idle EXCEPT !.pc = "operation", !.token = token]
           login == [Board!Idle EXCEPT !.pc = "operation", !.token = session + 1]
<1>1. token \in Nat /\ session \in Nat /\ slot[s].token \in Nat
  BY DEF BoardInv, BoardTypes, Requests
<1>2. UNCHANGED <<life, board, alarm>>
  BY DEF Board!CheckOrders, Board!Operate, Board!OperationAnswered, Board!FetchFails,
         Board!handleLogin, Board!SessionRefused, Board!server, Board!screen
<1>3. token' \in Nat /\ session' \in Nat /\ latest' \in {latest, s, Board!None}
  <2>1. \/ UNCHANGED <<token, session>>
        \/ token' = session + 1 /\ session' = session + 1
    BY DEF Board!CheckOrders, Board!Operate, Board!OperationAnswered, Board!FetchFails,
           Board!handleLogin, Board!SessionRefused
  <2>2. latest' = latest \/ latest' = s
    BY DEF Board!CheckOrders, Board!Operate, Board!OperationAnswered, Board!FetchFails,
           Board!handleLogin, Board!SessionRefused
  <2> QED
    BY <1>1, <2>1, <2>2
<1>4. /\ Blank(Board!Idle) /\ Blank(answer) /\ Blank(operation) /\ Blank(login)
  <2>1. session + 1 \in Nat
    BY <1>1
  <2> QED
    BY <1>1, <2>1, NewRequests DEF Blank
<1>5. Blank(refresh)
  <2>1. (~paused) \in BOOLEAN
    <3>1. CASE paused
      <4>1. (~paused) = FALSE
        BY <3>1
      <4> QED
        BY <4>1
    <3>2. CASE ~paused
      <4>1. (~paused) = TRUE
        BY <3>2
      <4> QED
        BY <4>1
    <3> QED
      BY <3>1, <3>2
  <2> QED
    BY <1>1, <2>1, NewRequests DEF Blank
<1>6. \E q \in {Board!Idle, answer, operation, login, refresh} : slot' = [slot EXCEPT ![s] = q]
  BY DEF Board!CheckOrders, Board!Operate, Board!OperationAnswered, Board!FetchFails,
         Board!handleLogin, Board!SessionRefused
<1> HIDE DEF refresh, answer, operation, login
<1>7. BoardInv'
  BY <1>2, <1>3, <1>4, <1>5, <1>6, SlotRenewed
<1> QED
  BY <1>2, <1>7, QuietStep

\* A page that is loaded anew asks for the orders with an empty board.
LEMMA ReloadStep ==
    ASSUME Board!LiveOrdersAssumption, BoardInv, Board!Reload
    PROVE  BoardInv' /\ Board!StepSound
<1>1. /\ UNCHANGED <<life, session, token>> /\ board' = Board!NoOrders
      /\ alarm' = Board!NewAlarm(alarm.enabled)
  BY DEF Board!Reload, Board!server
<1>2. token \in Nat /\ session \in Nat /\ alarm.enabled \in BOOLEAN
  BY DEF BoardInv, BoardTypes, Alarms
<1>3. PICK first :
         /\ Blank(first) /\ Blank(Board!Idle)
         /\ slot' = [s \in 1 .. Slots |-> IF s = 1 THEN first ELSE Board!Idle]
  <2>1. Blank(Board!Request(token, FALSE, TRUE)) /\ Blank(Board!Idle)
    BY <1>2, NewRequests DEF Blank
  <2> QED
    BY <2>1 DEF Board!Reload
<1>4. alarm' \in Alarms /\ alarm'.pending = {}
  BY <1>1, <1>2, AlarmSteps DEF BoardInv, BoardTypes
<1>5. slot' \in [1 .. Slots -> Requests]
  BY <1>3 DEF Blank
<1>6. BoardTypes'
  BY <1>1, <1>2, <1>4, <1>5, NothingShown DEF BoardInv, BoardTypes
<1>7. NoEarlier(board, life)'
  BY <1>1, NothingShown DEF NoEarlier
<1>8. ASSUME NEW k \in 1 .. Slots
      PROVE  Answered(slot[k])' /\ (latest' = k => Ahead(slot[k])')
  <2>1. slot'[k] \in {first, Board!Idle}
    BY <1>3
  <2>2. /\ Answered(first)' /\ Ahead(first)'
        /\ Answered(Board!Idle)' /\ Ahead(Board!Idle)'
    BY <1>3, BlankIsSound
  <2> QED
    BY <2>1, <2>2 DEF Answered, Ahead
<1>9. BoardInv'
  BY <1>6, <1>7, <1>8 DEF BoardInv
<1> QED
  BY <1>1, <1>4, <1>9, QuietStep

\* The session ends on the page: nothing is shown any more.
LEMMA LogoutSteps ==
    ASSUME Board!LiveOrdersAssumption, BoardInv,
           \/ Board!handleLogout
           \/ \E s \in 1 .. Slots : Board!SessionRefused(s) /\ Board!Current(s)
    PROVE  BoardInv' /\ Board!StepSound
<1>1. /\ UNCHANGED <<life, session>> /\ latest' = Board!None /\ token' = 0
      /\ board' = Board!NoOrders /\ alarm' = Board!NewAlarm(alarm.enabled)
  BY DEF Board!handleLogout, Board!SessionRefused, Board!LoggedOut, Board!server
<1>2. alarm' \in Alarms /\ alarm'.pending = {}
  <2>1. alarm \in Alarms /\ alarm.enabled \in BOOLEAN
    BY DEF BoardInv, BoardTypes, Alarms
  <2> QED
    BY <1>1, <2>1, AlarmSteps
<1>3. session' \in Nat /\ token' \in Nat
  BY <1>1 DEF BoardInv, BoardTypes
<1>4. Blank(Board!Idle)
  BY NewRequests DEF Blank
<1>5. slot' \in [1 .. Slots -> Requests]
  BY <1>4 DEF Board!handleLogout, Board!SessionRefused, BoardInv, BoardTypes, Blank
<1>6. BoardTypes'
  BY <1>1, <1>2, <1>3, <1>5, NothingShown DEF BoardInv, BoardTypes
<1>7. NoEarlier(board, life)'
  BY <1>1, NothingShown DEF NoEarlier
<1>8. ASSUME NEW k \in 1 .. Slots
      PROVE  Answered(slot[k])' /\ (latest' = k => Ahead(slot[k])')
  <2>1. slot'[k] \in {slot[k], Board!Idle}
    BY DEF Board!handleLogout, Board!SessionRefused, BoardInv, BoardTypes
  <2>2. Answered(slot[k])
    BY DEF BoardInv
  <2>3. Answered(Board!Idle)'
    BY <1>4, BlankIsSound
  <2>4. latest' # k
    BY <1>1 DEF Board!None
  <2> QED
    BY <1>1, <2>1, <2>2, <2>3, <2>4 DEF Answered, NoEarlier
<1>9. BoardInv'
  BY <1>6, <1>7, <1>8 DEF BoardInv
<1> QED
  BY <1>1, <1>2, <1>9, QuietStep

\* Orders are placed and move on; sessions end on the server.
LEMMA ServerSteps ==
    ASSUME Board!LiveOrdersAssumption, BoardInv,
           Board!Place \/ Board!EndSession \/ \E o \in Board!Placed : Board!Progress(o)
    PROVE  BoardInv' /\ Board!StepSound
<1>1. UNCHANGED <<slot, latest, board, alarm, token, session>>
  BY DEF Board!Place, Board!EndSession, Board!Progress, Board!screen
<1>2. /\ life \in [Board!Placed -> Board!Stages]
      /\ Board!Stages = {"unborn", "placed", "accepted", "ended"}
  BY DEF BoardInv, BoardTypes, Board!Stages
<1>3. life' \in [Board!Placed -> Board!Stages]
  BY <1>2 DEF Board!Place, Board!EndSession, Board!Progress
<1>4. \A o \in Board!Placed : Board!Rank[life[o]] \in 0 .. 3
  BY <1>2, Ranks
<1>5. ASSUME NEW o \in Board!Placed
      PROVE  Board!Rank[life[o]] <= Board!Rank[life'[o]]
  <2>1. CASE Board!Place
    BY <1>2, <1>4, <2>1, Ranks DEF Board!Place
  <2>2. CASE Board!EndSession
    BY <1>4, <2>2 DEF Board!EndSession
  <2>3. ASSUME NEW p \in Board!Placed, Board!Progress(p)
        PROVE  Board!Rank[life[o]] <= Board!Rank[life'[o]]
    <3>1. PICK stage \in {"accepted", "ended"} :
              Board!Rank[stage] > Board!Rank[life[p]] /\ life' = [life EXCEPT ![p] = stage]
      BY <2>3 DEF Board!Progress
    <3>2. life'[o] = IF o = p THEN stage ELSE life[o]
      BY <1>2, <3>1
    <3>3. Board!Rank[stage] \in 0 .. 3
      BY Ranks
    <3> QED
      BY <1>4, <3>1, <3>2, <3>3
  <2> QED
    BY <2>1, <2>2, <2>3
<1>6. BoardInv'
  BY <1>1, <1>3, <1>5, OrdersMoveOn
<1> QED
  BY <1>1, <1>6, QuietStep

\* What the dispatcher does with the alarm, the forms and the editor.
LEMMA PageSteps ==
    ASSUME Board!LiveOrdersAssumption, BoardInv,
           \/ Board!Acknowledge \/ Board!ToggleAlarm
           \/ Board!StartEdit \/ Board!HideEditor \/ Board!Pause \/ Board!Resume
           \/ UNCHANGED Board!vars
    PROVE  BoardInv' /\ Board!StepSound
<1>1. UNCHANGED <<life, slot, latest, board, token, session>>
  BY DEF Board!Acknowledge, Board!ToggleAlarm, Board!StartEdit, Board!HideEditor,
         Board!Pause, Board!Resume, Board!vars, Board!server
<1>2. \/ alarm' = alarm
      \/ alarm' = [alarm EXCEPT !.pending = {}]
      \/ alarm' = [alarm EXCEPT !.enabled = ~@, !.pending = {}]
  BY DEF Board!Acknowledge, Board!ToggleAlarm, Board!StartEdit, Board!HideEditor,
         Board!Pause, Board!Resume, Board!vars
<1>3. alarm \in Alarms /\ token \in Nat /\ session \in Nat
  BY DEF BoardInv, BoardTypes
<1>4. alarm' \in Alarms /\ (alarm' = alarm \/ alarm'.pending = {})
  BY <1>2, <1>3, AlarmSteps
<1>5. BoardInv'
  BY <1>1, <1>3, <1>4, ScreenChanges
<1> QED
  BY <1>1, <1>4, <1>5, QuietStep

\* The answer about an edit pause hands the alarm the board again.
LEMMA TimingStep ==
    ASSUME Board!LiveOrdersAssumption, BoardInv, Board!receiveEditTiming
    PROVE  BoardInv' /\ Board!StepSound
<1>1. /\ UNCHANGED <<life, slot, latest, token, session>> /\ board' = board
      /\ alarm' \in {alarm, Board!Snapshot(alarm, board)}
  BY DEF Board!receiveEditTiming, Board!setOrders, Board!server
<1>2. alarm \in Alarms /\ board \in Shows /\ token \in Nat /\ session \in Nat
  BY DEF BoardInv, BoardTypes
<1>3. alarm' \in Alarms /\ \A o \in alarm.seen \ alarm.pending : o \notin alarm'.pending
  BY <1>1, <1>2, AlarmSteps
<1>4. BoardInv'
  BY <1>1, <1>2, <1>3, ScreenChanges
<1>5. Board!BoardMovesForward
  <2>1. \A o \in DOMAIN board : Board!Rank[board[o]] \in 0 .. 3
    BY Ranks DEF BoardInv, BoardTypes, Shows
  <2> QED
    BY <1>1, <2>1 DEF Board!BoardMovesForward
<1> QED
  BY <1>3, <1>4, <1>5 DEF Board!StepSound, Board!AlertsOnce

\* The server reads a page or refuses to.
LEMMA ListSteps ==
    ASSUME Board!LiveOrdersAssumption, BoardInv, NEW s \in 1 .. Slots,
           Board!ListPage(s) \/ Board!ListRefused(s)
    PROVE  BoardInv' /\ Board!StepSound
<1>1. UNCHANGED <<board, alarm>>
  BY DEF Board!ListPage, Board!ListRefused, Board!screen
<1>2. BoardInv'
  BY PageRead, PageRefused
<1> QED
  BY <1>1, <1>2, QuietStep

LEMMA BoardStarts ==
    ASSUME Board!LiveOrdersAssumption, Board!Init
    PROVE  BoardInv
<1>1. Blank(Board!Idle)
  BY NewRequests DEF Blank
<1>2. /\ life = [o \in Board!Placed |-> "unborn"] /\ board = Board!NoOrders
      /\ token = 0 /\ session = 0 /\ slot = [s \in 1 .. Slots |-> Board!Idle]
      /\ alarm = Board!NewAlarm(TRUE)
  BY DEF Board!Init
<1>3. alarm \in Alarms
  BY <1>2 DEF Board!NewAlarm, Alarms
<1>4. BoardTypes
  BY <1>1, <1>2, <1>3, NothingShown DEF BoardTypes, Board!Stages, Blank
<1>5. Answered(Board!Idle) /\ Ahead(Board!Idle)
  BY <1>1, BlankIsSound
<1>6. NoEarlier(board, life)
  BY <1>2, NothingShown
<1> QED
  BY <1>2, <1>4, <1>5, <1>6 DEF BoardInv

LEMMA BoardGoesOn ==
    ASSUME Board!LiveOrdersAssumption, BoardInv, [Board!Next]_Board!vars
    PROVE  BoardInv' /\ Board!StepSound
<1>1. ASSUME NEW s \in 1 .. Slots, Board!SessionRefused(s)
      PROVE  BoardInv' /\ Board!StepSound
  BY <1>1, RequestSteps, LogoutSteps
<1> QED
  BY <1>1, RequestSteps, ReloadStep, LogoutSteps, ServerSteps, PageSteps, TimingStep,
     PageReceived, ListSteps DEF Board!Next

\* For any number of orders, pages, requests in flight and sessions, the board never
\* shows an order at an earlier stage than before, and an order seen without an alert
\* does not alert (App.tsx:2834-2903, incomingOrderAlarm.ts:74-94).
THEOREM BoardStepsHold == Board!Spec => BoardStepsSound
<1>1. Board!Init => BoardInv
  BY BoardStarts, BackgroundAssumption DEF BackgroundAssumption
<1>2. BoardInv /\ [Board!Next]_Board!vars => BoardInv' /\ [Board!StepSound]_boardVars
  BY BoardGoesOn, BackgroundAssumption DEF BackgroundAssumption
<1> QED
  BY <1>1, <1>2, PTL DEF Board!Spec, BoardStepsSound
=============================================================================
