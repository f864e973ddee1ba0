-------------------------- MODULE AllocationProofs --------------------------
(***************************************************************************)
(* The row locks of order assignment never deadlock, for any number of     *)
(* orders, drivers and concurrent transactions. The argument is the order  *)
(* in which a transaction takes its locks: an order, then Rob, then        *)
(* another driver.                                                         *)
(***************************************************************************)
EXTENDS AllocationLocks, FiniteSetTheorems, TLAPS

\* What transaction q works on, as far as its next statements need it.
WellFormed(q) ==
    /\ q.pc \in {"lockOrder", "readDrivers", "lockRob", "count", "select", "lockDriver"} =>
          q.order \in Orders
    /\ q.pc \in {"lockDriver", "lockAccount"} \/ q.kind = "manual" => q.driver \in Drivers

\* The rows that transaction q may have locked.
MayHold(q, x) ==
    /\ q.pc \notin {"idle", "lockOrder", "lockAccount"}
    /\ q.pc \in {"readDrivers", "lockRob"} => x = q.order
    /\ q.pc \in {"count", "select", "lockDriver"} => x \in {q.order, Rob}
    /\ q.pc = "select" => ~(x = Rob /\ Rob \in q.candidates)
    /\ q.pc = "lockDriver" => ~(x = Rob /\ q.driver = Rob)

LockRules ==
    /\ \A t \in Txns : WellFormed(txn[t])
    /\ \A t \in Txns : \A x \in Rows : lock[x] = t => MayHold(txn[t], x)

IInv == TypeOK /\ LockRules

\* Ending a transaction keeps the types, and leaves it without a lock.
LEMMA EndKeepsRules ==
    ASSUME IInv, NEW t \in Txns, End(t)
    PROVE  /\ lock' \in [Rows -> Txns \cup {NoTxn}]
           /\ txn' \in [Txns -> Txn]
           /\ LockRules'
<1>1. lock' \in [Rows -> Txns \cup {NoTxn}]
  BY DEF IInv, TypeOK, End, Released
<1>2. Idle \in Txn
  BY DEF Idle, Txn, Statuses, operationalStatuses
<1>3. txn' \in [Txns -> Txn]
  BY <1>2 DEF IInv, TypeOK, End
<1>4. ASSUME NEW u \in Txns PROVE WellFormed(txn'[u])
  BY DEF IInv, TypeOK, End, LockRules, WellFormed, Idle
<1>5. ASSUME NEW u \in Txns, NEW x \in Rows, lock'[x] = u PROVE MayHold(txn'[u], x)
  <2>1. u # t /\ lock[x] = u
    BY <1>5, AllocationAssumption DEF IInv, TypeOK, End, Released
  <2>2. txn'[u] = txn[u]
    BY <2>1 DEF IInv, TypeOK, End
  <2> QED
    BY <2>1, <2>2 DEF IInv, LockRules
<1> QED
  BY <1>1, <1>3, <1>4, <1>5 DEF LockRules

\* A transaction that changes its own record and takes at most the lock of row y
\* keeps the rules, if its new record allows y and what it held before.
LEMMA StepKeepsRules ==
    ASSUME IInv, NEW t \in Txns, NEW q \in Txn, NEW y \in Rows,
           txn' = [txn EXCEPT ![t] = q],
           \/ UNCHANGED lock
           \/ lock' = [lock EXCEPT ![y] = t] /\ MayHold(q, y) /\ lock[y] \in {NoTxn, t},
           WellFormed(q),
           \A x \in Rows : lock[x] = t => MayHold(q, x)
    PROVE  /\ lock' \in [Rows -> Txns \cup {NoTxn}]
           /\ txn' \in [Txns -> Txn]
           /\ LockRules'
<1>1. lock' \in [Rows -> Txns \cup {NoTxn}]
  BY DEF IInv, TypeOK
<1>2. txn' \in [Txns -> Txn]
  BY DEF IInv, TypeOK
<1>3. ASSUME NEW u \in Txns PROVE WellFormed(txn'[u])
  <2>1. CASE u = t
    BY <2>1 DEF IInv, TypeOK
  <2>2. CASE u # t
    BY <2>2 DEF IInv, TypeOK, LockRules
  <2> QED
    BY <2>1, <2>2
<1>4. ASSUME NEW u \in Txns, NEW x \in Rows, lock'[x] = u PROVE MayHold(txn'[u], x)
  <2>1. CASE u = t
    <3>1. txn'[u] = q
      BY <2>1 DEF IInv, TypeOK
    <3>2. lock[x] = t \/ (x = y /\ MayHold(q, y))
      BY <1>4, <2>1 DEF IInv, TypeOK
    <3> QED
      BY <3>1, <3>2
  <2>2. CASE u # t
    <3>1. txn'[u] = txn[u] /\ lock[x] = u
      BY <1>4, <2>2 DEF IInv, TypeOK
    <3> QED
      BY <3>1 DEF IInv, LockRules
  <2> QED
    BY <2>1, <2>2
<1> QED
  BY <1>1, <1>2, <1>3, <1>4 DEF LockRules

\* A database step of t whose new record is the old one moved to pc.
LEMMA GotoKeepsRules ==
    ASSUME IInv, NEW t \in Txns, NEW y \in Rows, NEW pc,
           [txn[t] EXCEPT !.pc = pc] \in Txn,
           Goto(t, pc),
           \/ UNCHANGED lock
           \/ Lock(t, y) /\ MayHold([txn[t] EXCEPT !.pc = pc], y),
           WellFormed([txn[t] EXCEPT !.pc = pc]),
           \A x \in Rows : lock[x] = t => MayHold([txn[t] EXCEPT !.pc = pc], x)
    PROVE  /\ lock' \in [Rows -> Txns \cup {NoTxn}]
           /\ txn' \in [Txns -> Txn]
           /\ LockRules'
<1> DEFINE q == [txn[t] EXCEPT !.pc = pc]
<1>1. txn' = [txn EXCEPT ![t] = q]
  BY DEF Goto, IInv, TypeOK
<1>2. \/ UNCHANGED lock
      \/ lock' = [lock EXCEPT ![y] = t] /\ MayHold(q, y) /\ lock[y] \in {NoTxn, t}
  BY DEF Lock
<1> HIDE DEF q
<1> QED
  BY <1>1, <1>2, StepKeepsRules DEF q

\* Beginning a transaction.
LEMMA BeginKeeps ==
    ASSUME IInv, NEW t \in Txns, Begin(t)
    PROVE  IInv'
<1>1. \A x \in Rows : lock[x] # t
  BY DEF IInv, LockRules, MayHold, Begin, AutoBegin, ManualBegin, AccessBegin
<1>2. PICK q \in Txn : /\ txn' = [txn EXCEPT ![t] = q]
                       /\ WellFormed(q)
  <2>1. ASSUME NEW o \in Orders, AutoBegin(t, o)
        PROVE  \E q \in Txn : txn' = [txn EXCEPT ![t] = q] /\ WellFormed(q)
    <3> DEFINE q == [Idle EXCEPT !.pc = "lockOrder", !.kind = "auto", !.order = o]
    <3>1. q \in Txn /\ WellFormed(q)
      BY DEF Idle, Txn, Statuses, operationalStatuses, WellFormed
    <3> QED
      BY <2>1, <3>1 DEF AutoBegin
  <2>2. ASSUME NEW o \in Orders, NEW d \in Drivers, ManualBegin(t, o, d)
        PROVE  \E q \in Txn : txn' = [txn EXCEPT ![t] = q] /\ WellFormed(q)
    <3> DEFINE q == [Idle EXCEPT !.pc = "lockOrder", !.kind = "manual",
                                 !.order = o, !.driver = d, !.snap = order[o].status]
    <3>1. order[o].status \in Statuses
      BY DEF IInv, TypeOK, Row
    <3>2. q \in Txn /\ WellFormed(q)
      BY <3>1 DEF Idle, Txn, WellFormed
    <3> QED
      BY <2>2, <3>2 DEF ManualBegin
  <2>3. ASSUME NEW d \in Drivers, AccessBegin(t, d)
        PROVE  \E q \in Txn : txn' = [txn EXCEPT ![t] = q] /\ WellFormed(q)
    <3> DEFINE q == [Idle EXCEPT !.pc = "lockAccount", !.kind = "access", !.driver = d]
    <3>1. q \in Txn /\ WellFormed(q)
      BY DEF Idle, Txn, Statuses, operationalStatuses, WellFormed
    <3> QED
      BY <2>3, <3>1 DEF AccessBegin
  <2> QED
    BY <2>1, <2>2, <2>3 DEF Begin
<1>3. UNCHANGED <<order, account, lock>>
  BY DEF Begin, AutoBegin, ManualBegin, AccessBegin
<1>4. PICK y \in Rows : TRUE
  BY AllocationAssumption DEF Rows
<1>5. txn' \in [Txns -> Txn] /\ LockRules'
  BY <1>1, <1>2, <1>3, <1>4, StepKeepsRules
<1> QED
  BY <1>3, <1>5 DEF IInv, TypeOK

\* Moving a record to another pc changes nothing else.
LEMMA GotoFields ==
    ASSUME NEW r \in Txn,
           NEW pc \in {"readDrivers", "count", "lockDriver", "write", "countUnfinished"}
    PROVE  LET q == [r EXCEPT !.pc = pc] IN
           /\ q \in Txn
           /\ q.pc = pc /\ q.order = r.order /\ q.driver = r.driver
           /\ q.candidates = r.candidates /\ q.kind = r.kind
BY DEF Txn

\* Statements that lock a row and go on.
LEMMA LocksKeep ==
    ASSUME IInv, NEW t \in Txns, NEW y \in Rows,
           NEW pc \in {"readDrivers", "count", "lockDriver", "write", "countUnfinished"},
           Lock(t, y) \/ UNCHANGED lock, Goto(t, pc),
           WellFormed([txn[t] EXCEPT !.pc = pc]),
           MayHold([txn[t] EXCEPT !.pc = pc], y),
           \A x \in Rows : MayHold(txn[t], x) => MayHold([txn[t] EXCEPT !.pc = pc], x),
           UNCHANGED <<order, account>>
    PROVE  IInv'
<1>1. txn[t] \in Txn /\ [txn[t] EXCEPT !.pc = pc] \in Txn
  BY GotoFields DEF IInv, TypeOK
<1>2. \A x \in Rows : lock[x] = t => MayHold([txn[t] EXCEPT !.pc = pc], x)
  BY DEF IInv, LockRules
<1>3. /\ lock' \in [Rows -> Txns \cup {NoTxn}]
      /\ txn' \in [Txns -> Txn]
      /\ LockRules'
  BY <1>1, <1>2, GotoKeepsRules
<1> QED
  BY <1>3 DEF IInv, TypeOK

\* An order is locked before anything else.
LEMMA OrderLocksKeep ==
    ASSUME IInv, NEW t \in Txns,
           AutoLockOrder(t) \/ ManualLockOrder(t)
    PROVE  IInv'
<1> DEFINE y == txn[t].order
<1>1. txn[t] \in Txn /\ txn[t].pc = "lockOrder" /\ y \in Orders /\ y # Rob /\ y \in Rows
  BY AllocationAssumption DEF IInv, TypeOK, LockRules, WellFormed, AutoLockOrder,
     ManualLockOrder, Rows
<1>2. PICK pc \in {"readDrivers", "lockDriver"} :
          /\ Lock(t, y) /\ Goto(t, pc)
          /\ pc = "lockDriver" => txn[t].kind = "manual"
  BY DEF AutoLockOrder, ManualLockOrder
<1> DEFINE q == [txn[t] EXCEPT !.pc = pc]
<1>3. q.pc = pc /\ q.order = y /\ q.driver = txn[t].driver /\ q.kind = txn[t].kind
  BY <1>1, GotoFields
<1>4. WellFormed(txn[t])
  BY DEF IInv, LockRules
<1> HIDE DEF q
<1>5. WellFormed(q) /\ MayHold(q, y)
  BY <1>1, <1>2, <1>3, <1>4 DEF WellFormed, MayHold
<1>6. \A x \in Rows : MayHold(txn[t], x) => MayHold(q, x)
  BY <1>1 DEF MayHold
<1>7. UNCHANGED <<order, account>>
  BY DEF AutoLockOrder, ManualLockOrder
<1> QED
  BY <1>1, <1>2, <1>5, <1>6, <1>7, LocksKeep DEF q

\* Rob is locked with no more than the order held, and no longer a candidate when
\* his row did not qualify.
LEMMA RobLockKeeps ==
    ASSUME IInv, NEW t \in Txns, AutoLockRob(t)
    PROVE  IInv'
<1>1. /\ txn[t] \in Txn /\ txn[t].pc = "lockRob" /\ WellFormed(txn[t]) /\ Rob \in Rows
      /\ \A x \in Rows : lock[x] = t => x = txn[t].order
      /\ UNCHANGED <<order, account>>
  BY AllocationAssumption DEF IInv, TypeOK, LockRules, MayHold, AutoLockRob, Rows
<1>2. CASE Lock(t, Rob) /\ Goto(t, "count")
  <2> DEFINE q == [txn[t] EXCEPT !.pc = "count"]
  <2>1. q.pc = "count" /\ q.order = txn[t].order /\ q.driver = txn[t].driver
        /\ q.kind = txn[t].kind
    BY <1>1, GotoFields
  <2> HIDE DEF q
  <2>2. WellFormed(q) /\ MayHold(q, Rob)
    BY <1>1, <2>1 DEF WellFormed, MayHold
  <2>3. \A x \in Rows : MayHold(txn[t], x) => MayHold(q, x)
    BY <1>1, <2>1 DEF MayHold
  <2> QED
    BY <1>1, <1>2, <2>2, <2>3, LocksKeep DEF q
<1>3. CASE /\ UNCHANGED lock \/ Lock(t, Rob)
           /\ txn' = [txn EXCEPT ![t].pc = "select", ![t].candidates = @ \ {Rob}]
  <2> DEFINE q == [txn[t] EXCEPT !.pc = "select", !.candidates = @ \ {Rob}]
  <2>1. q \in Txn /\ q.pc = "select" /\ q.order = txn[t].order /\ q.driver = txn[t].driver
        /\ q.kind = txn[t].kind /\ Rob \notin q.candidates
    BY <1>1 DEF Txn
  <2>2. txn' = [txn EXCEPT ![t] = q]
    BY <1>3 DEF IInv, TypeOK
  <2> HIDE DEF q
  <2>3. WellFormed(q) /\ MayHold(q, Rob) /\ \A x \in Rows : lock[x] = t => MayHold(q, x)
    BY <1>1, <2>1 DEF WellFormed, MayHold
  <2>4. \/ UNCHANGED lock
        \/ lock' = [lock EXCEPT ![Rob] = t] /\ MayHold(q, Rob) /\ lock[Rob] \in {NoTxn, t}
    BY <1>3, <2>3 DEF Lock
  <2>5. lock' \in [Rows -> Txns \cup {NoTxn}] /\ txn' \in [Txns -> Txn] /\ LockRules'
    BY <1>1, <2>1, <2>2, <2>3, <2>4, StepKeepsRules
  <2> QED
    BY <1>1, <2>5 DEF IInv, TypeOK
<1> QED
  BY <1>2, <1>3 DEF AutoLockRob, LockFails

\* The reads and decisions of an allocation that take no lock.
LEMMA DecisionsKeep ==
    ASSUME IInv, NEW t \in Txns,
           AutoReadDrivers(t) \/ AutoCount(t)
    PROVE  IInv'
<1>1. /\ txn[t] \in Txn /\ txn[t].pc \in {"readDrivers", "count"} /\ WellFormed(txn[t])
      /\ Rob \in Drivers /\ Rob \in Rows /\ Rob # txn[t].order
      /\ \A x \in Rows : lock[x] = t => MayHold(txn[t], x)
      /\ UNCHANGED <<order, account, lock>>
  BY AllocationAssumption DEF IInv, TypeOK, LockRules, AutoReadDrivers, AutoCount, Rows, WellFormed
<1>2. PICK q \in Txn : /\ txn' = [txn EXCEPT ![t] = q]
                       /\ q.order = txn[t].order /\ q.kind = txn[t].kind
                       /\ q.driver \in {txn[t].driver, Rob}
                       /\ q.pc \in {"lockRob", "select", "write"}
                       /\ q.pc = "lockRob" => txn[t].pc = "readDrivers"
                       /\ q.pc = "select" => txn[t].pc = "readDrivers" \/ Rob \notin q.candidates
  <2> DEFINE Good(q) == /\ txn' = [txn EXCEPT ![t] = q]
                        /\ q.order = txn[t].order /\ q.kind = txn[t].kind
                        /\ q.driver \in {txn[t].driver, Rob}
                        /\ q.pc \in {"lockRob", "select", "write"}
                        /\ q.pc = "lockRob" => txn[t].pc = "readDrivers"
                        /\ q.pc = "select" => txn[t].pc = "readDrivers" \/ Rob \notin q.candidates
  <2>1. ASSUME NEW S \in SUBSET Drivers, NEW pc \in {"lockRob", "select"},
               txn[t].pc = "readDrivers",
               txn' = [txn EXCEPT ![t].candidates = S, ![t].pc = pc]
        PROVE  \E q \in Txn : Good(q)
    <3> DEFINE q == [txn[t] EXCEPT !.candidates = S, !.pc = pc]
    <3>1. q \in Txn /\ q.order = txn[t].order /\ q.kind = txn[t].kind
          /\ q.driver = txn[t].driver /\ q.pc = pc
      BY <1>1 DEF Txn
    <3>2. txn' = [txn EXCEPT ![t] = q]
      BY <2>1 DEF IInv, TypeOK
    <3> HIDE DEF q
    <3> QED
      BY <2>1, <3>1, <3>2
  <2>2. CASE txn' = [txn EXCEPT ![t].pc = "write", ![t].driver = Rob]
    <3> DEFINE q == [txn[t] EXCEPT !.pc = "write", !.driver = Rob]
    <3>1. q \in Txn /\ q.order = txn[t].order /\ q.kind = txn[t].kind
          /\ q.driver = Rob /\ q.pc = "write"
      BY <1>1 DEF Txn
    <3>2. txn' = [txn EXCEPT ![t] = q]
      BY <2>2 DEF IInv, TypeOK
    <3> HIDE DEF q
    <3> QED
      BY <3>1, <3>2
  <2>3. CASE txn' = [txn EXCEPT ![t].pc = "select", ![t].candidates = @ \ {Rob}]
    <3> DEFINE q == [txn[t] EXCEPT !.pc = "select", !.candidates = @ \ {Rob}]
    <3>1. q \in Txn /\ q.order = txn[t].order /\ q.kind = txn[t].kind
          /\ q.driver = txn[t].driver /\ q.pc = "select" /\ Rob \notin q.candidates
      BY <1>1 DEF Txn
    <3>2. txn' = [txn EXCEPT ![t] = q]
      BY <2>3 DEF IInv, TypeOK
    <3> HIDE DEF q
    <3> QED
      BY <3>1, <3>2
  <2>4. CASE AutoReadDrivers(t)
    <3>1. PICK S \in SUBSET {d \in Drivers : Assignable(d)} :
             txn' = [txn EXCEPT ![t].candidates = S,
                                ![t].pc = IF RobPriority /\ Rob \in S
                                          THEN "lockRob" ELSE "select"]
      BY <2>4, Zenon DEF AutoReadDrivers
    <3> DEFINE pc == IF RobPriority /\ Rob \in S THEN "lockRob" ELSE "select"
    <3>2. pc \in {"lockRob", "select"} /\ S \in SUBSET Drivers /\ txn[t].pc = "readDrivers"
      BY <2>4 DEF AutoReadDrivers
    <3>3. txn' = [txn EXCEPT ![t].candidates = S, ![t].pc = pc]
      BY <3>1, Zenon
    <3> HIDE DEF pc
    <3> QED
      BY <2>1, <3>2, <3>3
  <2>5. CASE AutoCount(t)
    <3> HIDE DEF Good
    <3> QED
      BY <2>2, <2>3, <2>5, Zenon DEF AutoCount
  <2> QED
    BY <2>4, <2>5
<1>3. WellFormed(q)
  BY <1>1, <1>2 DEF WellFormed
<1>4. \A x \in Rows : lock[x] = t => MayHold(q, x)
  BY <1>1, <1>2 DEF MayHold
<1>5. lock' \in [Rows -> Txns \cup {NoTxn}] /\ txn' \in [Txns -> Txn] /\ LockRules'
  BY <1>1, <1>2, <1>3, <1>4, StepKeepsRules
<1> QED
  BY <1>1, <1>5 DEF IInv, TypeOK

\* The candidate is selected, or the allocation ends without one.
LEMMA SelectKeeps ==
    ASSUME IInv, NEW t \in Txns, AutoSelect(t)
    PROVE  IInv'
<1>1. /\ txn[t] \in Txn /\ txn[t].pc = "select" /\ WellFormed(txn[t])
      /\ \A x \in Rows : lock[x] = t => MayHold(txn[t], x)
      /\ UNCHANGED <<order, account>>
  BY DEF IInv, TypeOK, LockRules, AutoSelect
<1>2. CASE End(t)
  BY <1>1, <1>2, EndKeepsRules DEF IInv, TypeOK
<1>3. ASSUME NEW d \in txn[t].candidates, UNCHANGED lock,
             txn' = [txn EXCEPT ![t].pc = "lockDriver", ![t].driver = d]
      PROVE  IInv'
  <2> DEFINE q == [txn[t] EXCEPT !.pc = "lockDriver", !.driver = d]
  <2>1. q \in Txn /\ q.pc = "lockDriver" /\ q.order = txn[t].order /\ q.driver = d
        /\ d \in Drivers
    BY <1>1 DEF Txn
  <2>2. txn' = [txn EXCEPT ![t] = q]
    BY <1>3 DEF IInv, TypeOK
  <2> HIDE DEF q
  <2>3. WellFormed(q) /\ \A x \in Rows : lock[x] = t => MayHold(q, x)
    BY <1>1, <1>3, <2>1 DEF WellFormed, MayHold
  <2>4. Rob \in Rows
    BY AllocationAssumption DEF Rows
  <2>5. lock' \in [Rows -> Txns \cup {NoTxn}] /\ txn' \in [Txns -> Txn] /\ LockRules'
    BY <1>3, <2>1, <2>2, <2>3, <2>4, StepKeepsRules
  <2> QED
    BY <1>1, <2>5 DEF IInv, TypeOK
<1>4. CASE txn[t].candidates = {}
  BY <1>2, <1>4 DEF AutoSelect
<1>5. CASE txn[t].candidates # {}
  BY <1>3, <1>5, Zenon DEF AutoSelect
<1> QED
  BY <1>4, <1>5

\* The driver's row is locked for the write, or an account before it is counted.
LEMMA DriverLocksKeep ==
    ASSUME IInv, NEW t \in Txns,
           LockDriver(t) \/ lockStaffAccount(t) \/ CountUnfinished(t)
    PROVE  IInv'
<1>1. /\ txn[t] \in Txn /\ WellFormed(txn[t])
      /\ txn[t].pc \in {"lockDriver", "lockAccount", "countUnfinished"}
      /\ txn[t].pc \in {"lockDriver", "lockAccount"} => txn[t].driver \in Rows
      /\ UNCHANGED <<order, account>> /\ Rob \in Rows
  BY AllocationAssumption DEF IInv, TypeOK, LockRules, WellFormed, LockDriver, lockStaffAccount,
     CountUnfinished, Rows
<1>2. CASE End(t)
  BY <1>1, <1>2, EndKeepsRules DEF IInv, TypeOK
<1>3. ASSUME NEW y \in Rows, NEW pc \in {"write", "countUnfinished"},
             Lock(t, y) \/ UNCHANGED lock, Goto(t, pc)
      PROVE  IInv'
  <2> DEFINE q == [txn[t] EXCEPT !.pc = pc]
  <2>1. q.pc = pc /\ q.order = txn[t].order /\ q.driver = txn[t].driver
        /\ q.kind = txn[t].kind
    BY <1>1, GotoFields
  <2> HIDE DEF q
  <2>2. WellFormed(q) /\ \A x \in Rows : MayHold(q, x)
    BY <1>1, <2>1 DEF WellFormed, MayHold
  <2> QED
    BY <1>1, <1>3, <2>2, LocksKeep DEF q
<1>4. CASE LockDriver(t)
  BY <1>1, <1>2, <1>3, <1>4 DEF LockDriver
<1>5. CASE lockStaffAccount(t)
  BY <1>1, <1>3, <1>5 DEF lockStaffAccount
<1>6. CASE CountUnfinished(t)
  <2>1. End(t) \/ (Goto(t, "write") /\ UNCHANGED lock)
    BY <1>6, Zenon DEF CountUnfinished
  <2> QED
    BY <1>1, <1>2, <1>3, <2>1
<1> QED
  BY <1>4, <1>5, <1>6

\* The writes, which end their transactions, and rollbacks.
LEMMA WritesKeep ==
    ASSUME IInv, NEW t \in Txns,
           AutoOrderChanged(t) \/ AutoCommit(t) \/ ManualCommit(t) \/ AccessCommit(t)
           \/ Rollback(t)
    PROVE  IInv'
<1>1. End(t)
  BY DEF AutoOrderChanged, AutoCommit, ManualCommit, AccessCommit, Rollback
<1>2. lock' \in [Rows -> Txns \cup {NoTxn}] /\ txn' \in [Txns -> Txn] /\ LockRules'
  BY <1>1, EndKeepsRules
<1>3. txn[t] \in Txn
  BY DEF IInv, TypeOK
<1>4. order' \in [Orders -> Row]
  <2>1. CASE AutoCommit(t)
    <3> DEFINE new == [status |-> "DISPATCHED", driver |-> txn[t].driver, source |-> "AUTO"]
    <3>1. new \in Row
      BY <1>3 DEF Row, Txn, Statuses, operationalStatuses, Sources
    <3>2. order' = order \/ order' = [order EXCEPT ![txn[t].order] = new]
      BY <2>1, Zenon DEF AutoCommit
    <3> HIDE DEF new
    <3> QED
      BY <3>1, <3>2 DEF IInv, TypeOK
  <2>2. CASE ManualCommit(t)
    <3>1. CASE order' = order
      BY <3>1 DEF IInv, TypeOK
    <3>2. CASE order' # order
      <4> DEFINE o == txn[t].order
                 s == IF txn[t].snap \in {"PLACED", "DISPATCHED"} THEN "DISPATCHED"
                      ELSE order[o].status
                 c == IF txn[t].snap = "PLACED" THEN "MANUAL" ELSE order[o].source
      <4>1. order' = [order EXCEPT ![o].driver = txn[t].driver, ![o].status = s,
                                   ![o].source = c]
        BY <2>2, <3>2 DEF ManualCommit
      <4>2. ASSUME o \in Orders
            PROVE  s \in Statuses /\ c \in Sources
        BY <4>2 DEF IInv, TypeOK, Row, Statuses, operationalStatuses, Sources
      <4> HIDE DEF s, c
      <4>3. CASE o \in Orders
        <5> DEFINE new == [order[o] EXCEPT !.driver = txn[t].driver, !.status = s, !.source = c]
        <5>1. new \in Row
          <6>1. /\ order[o] \in Row /\ txn[t].driver \in Drivers \cup {NoDriver}
                /\ s \in Statuses /\ c \in Sources
            BY <1>3, <4>2, <4>3 DEF IInv, TypeOK, Txn
          <6> QED
            BY <6>1 DEF Row
        <5>2. order' = [order EXCEPT ![o] = new]
          BY <4>1, <4>3 DEF IInv, TypeOK
        <5> HIDE DEF new
        <5> QED
          BY <5>1, <5>2 DEF IInv, TypeOK
      <4>4. CASE o \notin Orders
        BY <4>1, <4>4 DEF IInv, TypeOK
      <4> QED
        BY <4>3, <4>4
    <3> QED
      BY <3>1, <3>2
  <2>3. CASE AutoOrderChanged(t) \/ AccessCommit(t) \/ Rollback(t)
    BY <2>3 DEF IInv, TypeOK, AutoOrderChanged, AccessCommit, Rollback
  <2> QED
    BY <2>1, <2>2, <2>3
<1>5. account' \in [Drivers -> Account]
  <2>1. CASE AccessCommit(t)
    <3> DEFINE d == txn[t].driver
               new == [account[d] EXCEPT !.access = FALSE, !.online = FALSE]
    <3>1. account' = [account EXCEPT ![d] = new]
      BY <2>1 DEF AccessCommit, IInv, TypeOK
    <3>2. d \in Drivers => new \in Account
      BY DEF IInv, TypeOK, Account
    <3> HIDE DEF d, new
    <3> QED
      BY <3>1, <3>2 DEF IInv, TypeOK
  <2>2. CASE ~AccessCommit(t)
    BY <2>2 DEF IInv, TypeOK, AutoOrderChanged, AutoCommit, ManualCommit, Rollback
  <2> QED
    BY <2>1, <2>2
<1> QED
  BY <1>2, <1>4, <1>5 DEF IInv, TypeOK

\* Single statements change one row and no transaction.
LEMMA StatementKeeps == ASSUME IInv, Statement PROVE IInv'
<1>1. UNCHANGED <<lock, txn>>
  BY DEF Statement, ChangeStatus, Unassign, SetPresence, RestoreAccess
<1>2. order' \in [Orders -> Row]
  <2>1. ASSUME NEW o \in Orders, NEW s \in Statuses, ChangeStatus(o, s)
        PROVE  order' \in [Orders -> Row]
    <3>1. [order[o] EXCEPT !.status = s] \in Row
      BY DEF IInv, TypeOK, Row
    <3>2. order' = [order EXCEPT ![o] = [order[o] EXCEPT !.status = s]]
      BY <2>1 DEF ChangeStatus, IInv, TypeOK
    <3> QED
      BY <3>1, <3>2 DEF IInv, TypeOK
  <2>2. ASSUME NEW o \in Orders, Unassign(o)
        PROVE  order' \in [Orders -> Row]
    <3> DEFINE s == IF order[o].status = "DISPATCHED" THEN "PLACED" ELSE order[o].status
               c == IF order[o].status = "DISPATCHED" THEN "NONE" ELSE order[o].source
               new == [order[o] EXCEPT !.driver = NoDriver, !.status = s, !.source = c]
    <3>1. order' = [order EXCEPT ![o] = new]
      BY <2>2 DEF Unassign, IInv, TypeOK
    <3>2. order[o] \in Row /\ s \in Statuses /\ c \in Sources
      BY DEF IInv, TypeOK, Row, Statuses, operationalStatuses, Sources
    <3> HIDE DEF s, c
    <3>3. new \in Row
      BY <3>2 DEF Row
    <3> HIDE DEF new
    <3> QED
      BY <3>1, <3>3 DEF IInv, TypeOK
  <2>3. CASE order' = order
    BY <2>3 DEF IInv, TypeOK
  <2> QED
    BY <2>1, <2>2, <2>3 DEF Statement, SetPresence, RestoreAccess
<1>3. account' \in [Drivers -> Account]
  BY ZenonT(40) DEF IInv, TypeOK, Statement, ChangeStatus, Unassign, SetPresence, RestoreAccess, Account
<1>4. LockRules'
  BY <1>1 DEF IInv, LockRules
<1> QED
  BY <1>1, <1>2, <1>3, <1>4 DEF IInv, TypeOK

\* The invariant of the lock protocol is inductive: it holds at first,
LEMMA InitIInv == ASSUME Init PROVE IInv
<1>1. Idle \in Txn /\ Idle.pc = "idle" /\ Idle.kind = "none"
  BY DEF Idle, Txn, Statuses, operationalStatuses
<1>2. TypeOK
  BY <1>1 DEF Init, TypeOK, Row, Account, Statuses, operationalStatuses, Sources
<1>3. LockRules
  BY <1>1, AllocationAssumption DEF Init, LockRules, WellFormed, Rows
<1> QED
  BY <1>2, <1>3 DEF IInv

\* every step keeps it,
LEMMA NextIInv == ASSUME IInv, [Next]_vars PROVE IInv'
<1>1. CASE UNCHANGED vars
  BY <1>1 DEF vars, IInv, TypeOK, LockRules
<1>2. ASSUME NEW t \in Txns, Begin(t) PROVE IInv'
  BY <1>2, BeginKeeps
<1>3. ASSUME NEW t \in Txns, Progress(t) PROVE IInv'
  BY <1>3, OrderLocksKeep, RobLockKeeps, DecisionsKeep, SelectKeeps, DriverLocksKeep,
     WritesKeep DEF Progress
<1>4. ASSUME NEW t \in Txns, Rollback(t) PROVE IInv'
  BY <1>4, WritesKeep
<1>5. CASE Statement
  BY <1>5, StatementKeeps
<1> QED
  BY <1>1, <1>2, <1>3, <1>4, <1>5 DEF Next

\* and so it holds always.
LEMMA Inductive == Spec => []IInv
BY InitIInv, NextIInv, PTL DEF Spec

\* The tables, the locks and the transactions keep their types.
THEOREM AllocationTypes == Spec => []TypeOK
<1>1. IInv => TypeOK
  BY DEF IInv
<1> QED
  BY <1>1, Inductive, PTL

\* Where a row stands in the order in which locks are taken.
Rank(x) == IF x \in Orders THEN 0 ELSE IF x = Rob THEN 1 ELSE 2

\* A transaction asks only for rows that come after all it holds, or that it holds.
LEMMA LocksInOrder ==
    ASSUME IInv, NEW t \in Txns, NEW x \in Wants(t), NEW y \in Rows, lock[y] = t
    PROVE  Rank(y) < Rank(x)
<1>1. MayHold(txn[t], y) /\ WellFormed(txn[t])
  BY DEF IInv, LockRules
<1>2. txn[t].pc \in {"lockRob", "lockDriver"}
  BY <1>1 DEF Wants, MayHold
<1>3. CASE txn[t].pc = "lockRob"
  BY <1>1, <1>3, AllocationAssumption DEF Wants, MayHold, WellFormed, Rank
<1>4. CASE txn[t].pc = "lockDriver"
  BY <1>1, <1>4, AllocationAssumption DEF Wants, MayHold, WellFormed, Rank
<1> QED
  BY <1>2, <1>3, <1>4

\* What a transaction waits for is a row.
LEMMA WantsRows ==
    ASSUME IInv, NEW t \in Txns
    PROVE  /\ Wants(t) \subseteq Rows
           /\ \A x, y \in Wants(t) : x = y
BY AllocationAssumption DEF Wants, IInv, LockRules, WellFormed, Rows

\* "Keep the same order-then-driver lock order used by automatic dispatch": no set
\* of transactions waits for itself. Along a chain of waiting transactions the
\* rank of the wanted row grows, and there are only three ranks.
THEOREM NoAllocationDeadlock == Spec => []NoDeadlock
<1>1. IInv => NoDeadlock
  <2> SUFFICES ASSUME IInv, NEW S \in SUBSET Txns, S # {},
                      \A t \in S : \E x \in Wants(t) : lock[x] \in S \ {t}
               PROVE  FALSE
    BY DEF NoDeadlock
  <2>1. ASSUME NEW t \in S, NEW x \in Wants(t), lock[x] \in S \ {t}
        PROVE  \E u \in S : \E y \in Wants(u) :
                  lock[y] \in S \ {u} /\ Rank(x) < Rank(y)
    <3>1. PICK u \in S : u = lock[x]
      BY <2>1
    <3>2. PICK y \in Wants(u) : lock[y] \in S \ {u}
      OBVIOUS
    <3>3. x \in Rows
      BY WantsRows
    <3>4. Rank(x) < Rank(y)
      BY <3>1, <3>3, LocksInOrder
    <3> QED
      BY <3>2, <3>4
  <2>2. PICK t0 \in S : \E x \in Wants(t0) : lock[x] \in S \ {t0}
    OBVIOUS
  <2>3. PICK x0 \in Wants(t0) : lock[x0] \in S \ {t0}
    BY <2>2
  <2>4. PICK t1 \in S : \E y \in Wants(t1) : lock[y] \in S \ {t1} /\ Rank(x0) < Rank(y)
    BY <2>1, <2>3
  <2>5. PICK x1 \in Wants(t1) : lock[x1] \in S \ {t1} /\ Rank(x0) < Rank(x1)
    BY <2>4
  <2>6. PICK t2 \in S : \E y \in Wants(t2) : lock[y] \in S \ {t2} /\ Rank(x1) < Rank(y)
    BY <2>1, <2>5
  <2>7. PICK x2 \in Wants(t2) : lock[x2] \in S \ {t2} /\ Rank(x1) < Rank(x2)
    BY <2>6
  <2>8. PICK t3 \in S : \E y \in Wants(t3) : lock[y] \in S \ {t3} /\ Rank(x2) < Rank(y)
    BY <2>1, <2>7
  <2>9. PICK x3 \in Wants(t3) : lock[x3] \in S \ {t3} /\ Rank(x2) < Rank(x3)
    BY <2>8
  <2> QED
    BY <2>5, <2>7, <2>9 DEF Rank
<1> QED
  BY <1>1, Inductive, PTL

-----------------------------------------------------------------------------
(***************************************************************************)
(* What the row locks of order assignment are for: a driver with           *)
(* unfinished deliveries keeps access, an assignment commits to a driver   *)
(* who is online, and automatic dispatch never exceeds Rob's limit, for    *)
(* any number of orders, drivers and concurrent transactions.              *)
(*                                                                         *)
(* A transaction decides on committed rows and writes later. Secured says  *)
(* what it may still rely on then, since it holds the lock of the driver's *)
(* row: nobody else writes that account, or gives that driver an order.    *)
(***************************************************************************)

\* Order o is an unfinished delivery of driver d.
Carries(d, o) == order[o].driver = d /\ Unfinished(o)

\* Which kind of transaction runs which statements.
KindOf(q) ==
    /\ q.pc \in {"readDrivers", "lockRob", "count", "select"} => q.kind = "auto"
    /\ q.pc \in {"lockDriver", "lockOrder"} => q.kind \in {"auto", "manual"}
    /\ q.pc \in {"lockAccount", "countUnfinished"} => q.kind = "access"
    /\ q.pc = "write" => q.kind \in {"auto", "manual", "access"}
    /\ q.pc \in {"write", "countUnfinished"} => q.driver \in Drivers

\* With priority on, Rob is chosen only by way of the count.
RobCounted(q) ==
    RobPriority /\ q.kind = "auto" =>
        /\ q.pc = "select" => Rob \notin q.candidates
        /\ q.pc = "lockDriver" => q.driver # Rob
        /\ q.pc = "write" /\ q.driver = Rob => Workload(Rob) < Limit

\* What transaction t holds, and what its lock keeps true.
Secured(t) ==
    LET q == txn[t] IN
    /\ KindOf(q)
    /\ RobCounted(q)
    /\ q.pc = "count" => lock[Rob] = t /\ Assignable(Rob)
    /\ q.pc = "write" /\ q.kind # "access" => lock[q.driver] = t /\ Assignable(q.driver)
    /\ q.pc = "countUnfinished" => lock[q.driver] = t
    /\ q.pc = "write" /\ q.kind = "access" =>
          lock[q.driver] = t /\ \A o \in Orders : ~Carries(q.driver, o)

SafeInv == IInv /\ (\A t \in Txns : Secured(t)) /\ UnfinishedKeepsAccess

\* A driver who is given no order has no larger workload.
LEMMA WorkloadShrinks ==
    ASSUME NEW d, \A o \in Orders : Carries(d, o)' => Carries(d, o)
    PROVE  /\ Workload(d) \in Nat /\ Workload(d)' \in Nat
           /\ Workload(d)' <= Workload(d)
<1> DEFINE S == {o \in Orders : order[o].driver = d /\ Unfinished(o)}
           T == {o \in Orders : order'[o].driver = d /\ Unfinished(o)'}
<1>1. T \subseteq S
  BY DEF Carries
<1>2. IsFiniteSet(S)
  BY AllocationAssumption, FS_Subset
<1>3. /\ Cardinality(S) \in Nat /\ Cardinality(T) \in Nat
      /\ Cardinality(T) <= Cardinality(S)
  BY <1>1, <1>2, FS_Subset, FS_CardinalityType
<1> QED
  BY <1>3 DEF Workload

\* Without a workload no order is an unfinished delivery of the driver.
LEMMA NoWorkload ==
    ASSUME NEW d
    PROVE  Workload(d) \in Nat /\ (~(Workload(d) > 0) => \A o \in Orders : ~Carries(d, o))
<1> DEFINE S == {o \in Orders : order[o].driver = d /\ Unfinished(o)}
<1>1. IsFiniteSet(S)
  BY AllocationAssumption, FS_Subset
<1>2. Cardinality(S) \in Nat /\ (Cardinality(S) = 0 <=> S = {})
  BY <1>1, FS_CardinalityType, FS_EmptySet
<1>3. Workload(d) = Cardinality(S)
  BY DEF Workload
<1>4. S = {} => \A o \in Orders : ~Carries(d, o)
  BY DEF Carries
<1> HIDE DEF S
<1> QED
  BY <1>2, <1>3, <1>4

\* A transaction stays secured while it keeps its locks and nobody writes the
\* account, or adds to the deliveries, of a driver it has locked.
LEMMA OthersStaySecured ==
    ASSUME IInv, NEW u \in Txns, Secured(u), txn'[u] = txn[u],
           \A x \in Rows : lock[x] = u => lock'[x] = u,
           \A d \in Drivers : lock[d] = u =>
               account'[d] = account[d] /\ \A o \in Orders : Carries(d, o)' => Carries(d, o)
    PROVE  Secured(u)'
<1> DEFINE q == txn[u]
<1>1. Rob \in Rows /\ Rob \in Drivers /\ Drivers \subseteq Rows
  BY AllocationAssumption DEF Rows
<1>2. KindOf(q)
  BY DEF Secured
<1>3. RobCounted(q)'
  <2> SUFFICES ASSUME RobPriority, q.kind = "auto", q.pc = "write", q.driver = Rob
               PROVE  Workload(Rob)' < Limit
    BY DEF Secured, RobCounted
  <2>1. Workload(Rob) < Limit /\ lock[Rob] = u
    BY DEF Secured, RobCounted
  <2>2. /\ Workload(Rob) \in Nat /\ Workload(Rob)' \in Nat
        /\ Workload(Rob)' <= Workload(Rob)
    BY <1>1, <2>1, WorkloadShrinks
  <2>3. Limit \in Nat
    BY AllocationAssumption
  <2> QED
    BY <2>1, <2>2, <2>3
<1>4. q.pc = "count" => lock'[Rob] = u /\ Assignable(Rob)'
  BY <1>1 DEF Secured, Assignable
<1>5. q.pc = "write" /\ q.kind # "access" => lock'[q.driver] = u /\ Assignable(q.driver)'
  BY <1>1, <1>2 DEF Secured, Assignable, KindOf
<1>6. q.pc = "countUnfinished" => lock'[q.driver] = u
  BY <1>1, <1>2 DEF Secured, KindOf
<1>7. q.pc = "write" /\ q.kind = "access" =>
          lock'[q.driver] = u /\ \A o \in Orders : ~Carries(q.driver, o)'
  BY <1>1, <1>2 DEF Secured, KindOf
<1> QED
  BY <1>2, <1>3, <1>4, <1>5, <1>6, <1>7, Zenon DEF Secured, KindOf

\* What transactions do to the locks: nobody loses one but by its own end.
LocksMove(t) == UNCHANGED lock \/ lock' = Released(t) \/ \E y : Lock(t, y)

\* A step of t leaves the locks of others where they are.
LEMMA OthersKeepLocks ==
    ASSUME IInv, NEW t \in Txns, NEW u \in Txns, u # t, LocksMove(t),
           NEW x \in Rows, lock[x] = u
    PROVE  lock'[x] = u
<1>1. CASE UNCHANGED lock \/ lock' = Released(t)
  BY <1>1 DEF Released
<1>2. CASE \E y : Lock(t, y)
  <2>1. PICK y : lock[y] \in {NoTxn, t} /\ lock' = [lock EXCEPT ![y] = t]
    BY <1>2 DEF Lock
  <2>2. u # NoTxn
    BY AllocationAssumption
  <2> QED
    BY <2>1, <2>2 DEF IInv, TypeOK
<1> QED
  BY <1>1, <1>2 DEF LocksMove

\* A statement of t that writes no row: its new record q must be secured.
LEMMA QuietStep ==
    ASSUME SafeInv, NEW t \in Txns, NEW q,
           txn' = [txn EXCEPT ![t] = q], LocksMove(t), UNCHANGED <<order, account>>,
           KindOf(q), RobCounted(q),
           q.pc = "count" => lock'[Rob] = t /\ Assignable(Rob),
           q.pc = "write" /\ q.kind # "access" => lock'[q.driver] = t /\ Assignable(q.driver),
           q.pc = "countUnfinished" => lock'[q.driver] = t,
           q.pc = "write" /\ q.kind = "access" =>
               lock'[q.driver] = t /\ \A o \in Orders : ~Carries(q.driver, o)
    PROVE  (\A u \in Txns : Secured(u))' /\ UnfinishedKeepsAccess'
<1>1. txn'[t] = q
  BY DEF SafeInv, IInv, TypeOK
<1>2. \A d : \A o \in Orders : Carries(d, o)' <=> Carries(d, o)
  BY DEF Carries, Unfinished
<1>3. \A d : Assignable(d)' <=> Assignable(d)
  BY DEF Assignable
<1>4. Secured(t)'
  <2>1. RobCounted(q)'
    <3> SUFFICES ASSUME RobPriority, q.kind = "auto", q.pc = "write", q.driver = Rob
                 PROVE  Workload(Rob)' < Limit
      BY DEF RobCounted
    <3>1. Workload(Rob) < Limit
      BY DEF RobCounted
    <3>2. Workload(Rob) \in Nat /\ Workload(Rob)' \in Nat /\ Workload(Rob)' <= Workload(Rob)
      BY <1>2, WorkloadShrinks
    <3> QED
      BY <3>1, <3>2, AllocationAssumption
  <2>2. q.pc = "count" => Assignable(Rob)'
    BY <1>3
  <2>3. q.pc = "write" /\ q.kind # "access" => Assignable(q.driver)'
    BY <1>3
  <2>4. q.pc = "write" /\ q.kind = "access" => \A o \in Orders : ~Carries(q.driver, o)'
    BY <1>2
  <2> QED
    BY <1>1, <2>1, <2>2, <2>3, <2>4, Zenon DEF Secured, KindOf, RobCounted
<1>5. ASSUME NEW u \in Txns, u # t PROVE Secured(u)'
  <2>1. txn'[u] = txn[u] /\ Secured(u) /\ IInv
    BY <1>5 DEF SafeInv, IInv, TypeOK
  <2>2. \A x \in Rows : lock[x] = u => lock'[x] = u
    BY <1>5, <2>1, OthersKeepLocks
  <2> QED
    BY <1>2, <2>1, <2>2, OthersStaySecured
<1>6. UnfinishedKeepsAccess'
  BY DEF SafeInv, UnfinishedKeepsAccess, Unfinished
<1> QED
  BY <1>4, <1>5, <1>6

\* The end of a transaction that wrote nothing.
LEMMA QuietEnd ==
    ASSUME SafeInv, NEW t \in Txns, End(t), UNCHANGED <<order, account>>
    PROVE  (\A u \in Txns : Secured(u))' /\ UnfinishedKeepsAccess'
<1>1. txn' = [txn EXCEPT ![t] = Idle] /\ LocksMove(t)
  BY DEF End, LocksMove
<1>2. Idle.pc = "idle"
  BY DEF Idle
<1>3. KindOf(Idle) /\ RobCounted(Idle)
  BY <1>2 DEF KindOf, RobCounted
<1> QED
  BY <1>1, <1>2, <1>3, QuietStep

\* A statement that moves the record to pc.
LEMMA QuietGoto ==
    ASSUME SafeInv, NEW t \in Txns, UNCHANGED <<order, account>>, LocksMove(t),
           NEW pc \in {"readDrivers", "count", "lockDriver", "write", "countUnfinished"},
           Goto(t, pc),
           KindOf([txn[t] EXCEPT !.pc = pc]), RobCounted([txn[t] EXCEPT !.pc = pc]),
           pc = "count" => lock'[Rob] = t /\ Assignable(Rob),
           pc = "write" /\ txn[t].kind # "access" =>
               lock'[txn[t].driver] = t /\ Assignable(txn[t].driver),
           pc = "countUnfinished" => lock'[txn[t].driver] = t,
           pc = "write" /\ txn[t].kind = "access" =>
               lock'[txn[t].driver] = t /\ \A o \in Orders : ~Carries(txn[t].driver, o)
    PROVE  (\A u \in Txns : Secured(u))' /\ UnfinishedKeepsAccess'
<1> DEFINE q == [txn[t] EXCEPT !.pc = pc]
<1>1. txn' = [txn EXCEPT ![t] = q]
  BY DEF Goto, SafeInv, IInv, TypeOK
<1>2. q.pc = pc /\ q.kind = txn[t].kind /\ q.driver = txn[t].driver
  BY GotoFields DEF SafeInv, IInv, TypeOK
<1>3. KindOf(q) /\ RobCounted(q)
  OBVIOUS
<1> HIDE DEF q
<1> QED
  BY <1>1, <1>2, <1>3, QuietStep

\* Beginnings.
LEMMA BeginSafe ==
    ASSUME SafeInv, NEW t \in Txns, Begin(t)
    PROVE  (\A u \in Txns : Secured(u))' /\ UnfinishedKeepsAccess'
<1> DEFINE Begun(q) == /\ txn' = [txn EXCEPT ![t] = q]
                       /\ \/ q.pc = "lockOrder" /\ q.kind \in {"auto", "manual"}
                          \/ q.pc = "lockAccount" /\ q.kind = "access"
                       /\ UNCHANGED <<order, account, lock>>
<1>1. PICK q : Begun(q)
  <2>1. ASSUME NEW o \in Orders, AutoBegin(t, o) PROVE \E q : Begun(q)
    <3> DEFINE q == [Idle EXCEPT !.pc = "lockOrder", !.kind = "auto", !.order = o]
    <3>1. Begun(q)
      BY <2>1 DEF AutoBegin, Idle
    <3> QED
      BY <3>1
  <2>2. ASSUME NEW o \in Orders, NEW d \in Drivers, ManualBegin(t, o, d)
        PROVE  \E q : Begun(q)
    <3> DEFINE q == [Idle EXCEPT !.pc = "lockOrder", !.kind = "manual",
                                 !.order = o, !.driver = d, !.snap = order[o].status]
    <3>1. Begun(q)
      BY <2>2 DEF ManualBegin, Idle
    <3> QED
      BY <3>1
  <2>3. ASSUME NEW d \in Drivers, AccessBegin(t, d) PROVE \E q : Begun(q)
    <3> DEFINE q == [Idle EXCEPT !.pc = "lockAccount", !.kind = "access", !.driver = d]
    <3>1. Begun(q)
      BY <2>3 DEF AccessBegin, Idle
    <3> QED
      BY <3>1
  <2> HIDE DEF Begun
  <2> QED
    BY <2>1, <2>2, <2>3 DEF Begin
<1>2. UNCHANGED <<order, account, lock>>
  BY <1>1
<1>3. KindOf(q) /\ RobCounted(q)
  BY <1>1 DEF KindOf, RobCounted
<1> QED
  BY <1>1, <1>2, <1>3, QuietStep DEF LocksMove

\* Row locks that an allocation or a manual assignment takes on its order.
LEMMA OrderLockSafe ==
    ASSUME SafeInv, NEW t \in Txns, AutoLockOrder(t) \/ ManualLockOrder(t)
    PROVE  (\A u \in Txns : Secured(u))' /\ UnfinishedKeepsAccess'
<1>1. txn[t] \in Txn /\ KindOf(txn[t]) /\ UNCHANGED <<order, account>> /\ LocksMove(t)
  BY DEF SafeInv, IInv, TypeOK, Secured, AutoLockOrder, ManualLockOrder, LocksMove
<1>2. PICK pc \in {"readDrivers", "lockDriver"} :
          /\ Goto(t, pc)
          /\ pc = "readDrivers" => txn[t].kind = "auto"
          /\ pc = "lockDriver" => txn[t].kind = "manual"
  BY DEF AutoLockOrder, ManualLockOrder
<1> DEFINE q == [txn[t] EXCEPT !.pc = pc]
<1>3. q.pc = pc /\ q.kind = txn[t].kind
  BY <1>1, GotoFields
<1> HIDE DEF q
<1>4. KindOf(q) /\ RobCounted(q)
  BY <1>2, <1>3 DEF KindOf, RobCounted
<1> QED
  BY <1>1, <1>2, <1>4, QuietGoto DEF q

\* The steps of an allocation before it has a driver.
LEMMA ReadDriversSafe ==
    ASSUME SafeInv, NEW t \in Txns, AutoReadDrivers(t)
    PROVE  (\A u \in Txns : Secured(u))' /\ UnfinishedKeepsAccess'
<1>1. txn[t] \in Txn /\ txn[t].pc = "readDrivers" /\ txn[t].kind = "auto"
  BY DEF SafeInv, IInv, TypeOK, Secured, KindOf, AutoReadDrivers
<1>2. PICK S \in SUBSET {d \in Drivers : Assignable(d)} :
          txn' = [txn EXCEPT ![t].candidates = S,
                             ![t].pc = IF RobPriority /\ Rob \in S
                                       THEN "lockRob" ELSE "select"]
  BY Zenon DEF AutoReadDrivers
<1> DEFINE pc == IF RobPriority /\ Rob \in S THEN "lockRob" ELSE "select"
           q == [txn[t] EXCEPT !.candidates = S, !.pc = pc]
<1>3. txn' = [txn EXCEPT ![t] = q]
  BY <1>2 DEF SafeInv, IInv, TypeOK
<1>4. q.kind = "auto" /\ q.candidates = S /\ q.pc = pc
  BY <1>1 DEF Txn
<1>5. KindOf(q) /\ RobCounted(q) /\ q.pc \in {"lockRob", "select"}
  <2> HIDE DEF q
  <2> QED
    BY <1>4 DEF KindOf, RobCounted
<1>6. UNCHANGED <<order, account, lock>>
  BY DEF AutoReadDrivers
<1> HIDE DEF q, pc
<1> QED
  BY <1>3, <1>5, <1>6, QuietStep DEF LocksMove

\* Rob's row is locked, or he is a candidate no longer.
LEMMA RobLockSafe ==
    ASSUME SafeInv, NEW t \in Txns, AutoLockRob(t)
    PROVE  (\A u \in Txns : Secured(u))' /\ UnfinishedKeepsAccess'
<1>1. txn[t] \in Txn /\ txn[t].pc = "lockRob" /\ txn[t].kind = "auto" /\ Rob \in Rows
  BY AllocationAssumption DEF SafeInv, IInv, TypeOK, Secured, KindOf, AutoLockRob, Rows
<1>2. UNCHANGED <<order, account>> /\ LocksMove(t)
  BY DEF AutoLockRob, LockFails, LocksMove
<1>3. CASE Assignable(Rob) /\ Lock(t, Rob) /\ Goto(t, "count")
  <2> DEFINE q == [txn[t] EXCEPT !.pc = "count"]
  <2>1. q.pc = "count" /\ q.kind = "auto"
    BY <1>1, GotoFields
  <2> HIDE DEF q
  <2>2. KindOf(q) /\ RobCounted(q)
    BY <2>1 DEF KindOf, RobCounted
  <2>3. lock'[Rob] = t
    BY <1>1, <1>3 DEF Lock, SafeInv, IInv, TypeOK
  <2> QED
    BY <1>1, <1>2, <1>3, <2>2, <2>3, QuietGoto DEF q
<1>4. CASE txn' = [txn EXCEPT ![t].pc = "select", ![t].candidates = @ \ {Rob}]
  <2> DEFINE q == [txn[t] EXCEPT !.pc = "select", !.candidates = @ \ {Rob}]
  <2>1. q.pc = "select" /\ q.kind = "auto" /\ Rob \notin q.candidates
    BY <1>1 DEF Txn
  <2>2. txn' = [txn EXCEPT ![t] = q]
    BY <1>4 DEF SafeInv, IInv, TypeOK
  <2> HIDE DEF q
  <2>3. KindOf(q) /\ RobCounted(q)
    BY <2>1 DEF KindOf, RobCounted
  <2> QED
    BY <1>2, <2>1, <2>2, <2>3, QuietStep
<1> QED
  BY <1>3, <1>4, Zenon DEF AutoLockRob

\* Rob's orders are counted with his row locked.
LEMMA CountSafe ==
    ASSUME SafeInv, NEW t \in Txns, AutoCount(t)
    PROVE  (\A u \in Txns : Secured(u))' /\ UnfinishedKeepsAccess'
<1>1. /\ txn[t] \in Txn /\ txn[t].pc = "count" /\ txn[t].kind = "auto" /\ Rob \in Drivers
      /\ lock[Rob] = t /\ Assignable(Rob)
  BY AllocationAssumption DEF SafeInv, IInv, TypeOK, Secured, KindOf, AutoCount
<1>2. UNCHANGED <<order, account, lock>>
  BY DEF AutoCount
<1>3. CASE /\ Workload(Rob) < Limit
           /\ txn' = [txn EXCEPT ![t].pc = "write", ![t].driver = Rob]
  <2> DEFINE q == [txn[t] EXCEPT !.pc = "write", !.driver = Rob]
  <2>1. q.pc = "write" /\ q.kind = "auto" /\ q.driver = Rob
    BY <1>1 DEF Txn
  <2>2. txn' = [txn EXCEPT ![t] = q]
    BY <1>3 DEF SafeInv, IInv, TypeOK
  <2> HIDE DEF q
  <2>3. KindOf(q) /\ RobCounted(q)
    BY <1>1, <1>3, <2>1 DEF KindOf, RobCounted
  <2>4. lock'[q.driver] = t /\ Assignable(q.driver)
    BY <1>1, <1>2, <2>1
  <2> QED
    BY <1>2, <2>1, <2>2, <2>3, <2>4, QuietStep DEF LocksMove
<1>4. CASE txn' = [txn EXCEPT ![t].pc = "select", ![t].candidates = @ \ {Rob}]
  <2> DEFINE q == [txn[t] EXCEPT !.pc = "select", !.candidates = @ \ {Rob}]
  <2>1. q.pc = "select" /\ q.kind = "auto" /\ Rob \notin q.candidates
    BY <1>1 DEF Txn
  <2>2. txn' = [txn EXCEPT ![t] = q]
    BY <1>4 DEF SafeInv, IInv, TypeOK
  <2> HIDE DEF q
  <2>3. KindOf(q) /\ RobCounted(q)
    BY <2>1 DEF KindOf, RobCounted
  <2> QED
    BY <1>2, <2>1, <2>2, <2>3, QuietStep DEF LocksMove
<1> QED
  BY <1>3, <1>4, Zenon DEF AutoCount

\* With priority on, Rob is not among the candidates that are left.
LEMMA SelectSafe ==
    ASSUME SafeInv, NEW t \in Txns, AutoSelect(t)
    PROVE  (\A u \in Txns : Secured(u))' /\ UnfinishedKeepsAccess'
<1>1. /\ txn[t] \in Txn /\ txn[t].pc = "select" /\ txn[t].kind = "auto"
      /\ RobCounted(txn[t]) /\ UNCHANGED <<order, account>>
  BY DEF SafeInv, IInv, TypeOK, Secured, KindOf, AutoSelect
<1>2. ASSUME NEW d \in txn[t].candidates, UNCHANGED lock,
             txn' = [txn EXCEPT ![t].pc = "lockDriver", ![t].driver = d]
      PROVE  (\A u \in Txns : Secured(u))' /\ UnfinishedKeepsAccess'
  <2> DEFINE q == [txn[t] EXCEPT !.pc = "lockDriver", !.driver = d]
  <2>1. q.pc = "lockDriver" /\ q.kind = "auto" /\ q.driver = d
    BY <1>1 DEF Txn
  <2>2. txn' = [txn EXCEPT ![t] = q]
    BY <1>2 DEF SafeInv, IInv, TypeOK
  <2> HIDE DEF q
  <2>3. KindOf(q) /\ RobCounted(q)
    BY <1>1, <2>1 DEF KindOf, RobCounted
  <2> QED
    BY <1>1, <1>2, <2>1, <2>2, <2>3, QuietStep DEF LocksMove
<1>3. CASE End(t)
  BY <1>1, <1>3, QuietEnd
<1>4. CASE txn[t].candidates = {}
  BY <1>3, <1>4 DEF AutoSelect
<1>5. CASE txn[t].candidates # {}
  BY <1>2, <1>5, Zenon DEF AutoSelect
<1> QED
  BY <1>4, <1>5

\* The driver's row is locked for the write.
LEMMA LockDriverSafe ==
    ASSUME SafeInv, NEW t \in Txns, LockDriver(t)
    PROVE  (\A u \in Txns : Secured(u))' /\ UnfinishedKeepsAccess'
<1>1. /\ txn[t] \in Txn /\ txn[t].pc = "lockDriver" /\ txn[t].driver \in Drivers
      /\ txn[t].kind \in {"auto", "manual"} /\ RobCounted(txn[t])
      /\ UNCHANGED <<order, account>>
  BY DEF SafeInv, IInv, TypeOK, LockRules, WellFormed, Secured, KindOf, LockDriver
<1>2. CASE End(t)
  BY <1>1, <1>2, QuietEnd
<1>3. CASE Assignable(txn[t].driver) /\ Lock(t, txn[t].driver) /\ Goto(t, "write")
  <2> DEFINE q == [txn[t] EXCEPT !.pc = "write"]
  <2>1. q.pc = "write" /\ q.kind = txn[t].kind /\ q.driver = txn[t].driver
    BY <1>1, GotoFields
  <2> HIDE DEF q
  <2>2. KindOf(q) /\ RobCounted(q)
    BY <1>1, <2>1 DEF KindOf, RobCounted
  <2>3. lock'[txn[t].driver] = t
    BY <1>1, <1>3 DEF Lock, SafeInv, IInv, TypeOK, Rows
  <2>4. LocksMove(t)
    BY <1>3, Zenon DEF LocksMove
  <2> QED
    BY <1>1, <1>3, <2>2, <2>3, <2>4, QuietGoto DEF q
<1> QED
  BY <1>2, <1>3, Zenon DEF LockDriver

\* An account is locked, and its unfinished deliveries counted, before it changes.
LEMMA AccountLockSafe ==
    ASSUME SafeInv, NEW t \in Txns, lockStaffAccount(t)
    PROVE  (\A u \in Txns : Secured(u))' /\ UnfinishedKeepsAccess'
<1>1. /\ txn[t] \in Txn /\ txn[t].pc = "lockAccount" /\ txn[t].driver \in Drivers
      /\ txn[t].kind = "access" /\ UNCHANGED <<order, account>>
      /\ Lock(t, txn[t].driver) /\ Goto(t, "countUnfinished")
  BY DEF SafeInv, IInv, TypeOK, LockRules, WellFormed, Secured, KindOf, lockStaffAccount
<1> DEFINE q == [txn[t] EXCEPT !.pc = "countUnfinished"]
<1>2. q.pc = "countUnfinished" /\ q.kind = txn[t].kind /\ q.driver = txn[t].driver
  BY <1>1, GotoFields
<1> HIDE DEF q
<1>3. KindOf(q) /\ RobCounted(q)
  BY <1>1, <1>2 DEF KindOf, RobCounted
<1>4. lock'[txn[t].driver] = t
  BY <1>1 DEF Lock, SafeInv, IInv, TypeOK, Rows
<1>5. LocksMove(t)
  BY <1>1, Zenon DEF LocksMove
<1> QED
  BY <1>1, <1>3, <1>4, <1>5, QuietGoto DEF q

\* What was counted stays true, since the account is locked.
LEMMA CountUnfinishedSafe ==
    ASSUME SafeInv, NEW t \in Txns, CountUnfinished(t)
    PROVE  (\A u \in Txns : Secured(u))' /\ UnfinishedKeepsAccess'
<1>1. /\ txn[t] \in Txn /\ txn[t].pc = "countUnfinished" /\ txn[t].driver \in Drivers
      /\ txn[t].kind = "access" /\ lock[txn[t].driver] = t
      /\ UNCHANGED <<order, account>>
  BY DEF SafeInv, IInv, TypeOK, Secured, KindOf, CountUnfinished
<1>2. CASE End(t)
  BY <1>1, <1>2, QuietEnd
<1>3. CASE ~(Workload(txn[t].driver) > 0) /\ Goto(t, "write") /\ UNCHANGED lock
  <2> DEFINE q == [txn[t] EXCEPT !.pc = "write"]
  <2>1. q.pc = "write" /\ q.kind = txn[t].kind /\ q.driver = txn[t].driver
    BY <1>1, GotoFields
  <2> HIDE DEF q
  <2>2. KindOf(q) /\ RobCounted(q)
    BY <1>1, <2>1 DEF KindOf, RobCounted
  <2>3. \A o \in Orders : ~Carries(txn[t].driver, o)
    BY <1>3, NoWorkload
  <2>4. lock'[txn[t].driver] = t /\ LocksMove(t)
    BY <1>1, <1>3 DEF LocksMove
  <2> QED
    BY <1>1, <1>3, <2>2, <2>3, <2>4, QuietGoto DEF q
<1> QED
  BY <1>2, <1>3, Zenon DEF CountUnfinished

\* The end of t's transaction with a write: nobody else relies on what it changed.
LEMMA WriteEnds ==
    ASSUME SafeInv, NEW t \in Txns, End(t),
           \A d \in Drivers : lock[d] # t =>
               account'[d] = account[d] /\ \A o \in Orders : Carries(d, o)' => Carries(d, o)
    PROVE  (\A u \in Txns : Secured(u))'
<1>1. txn'[t] = Idle
  BY DEF End, SafeInv, IInv, TypeOK
<1>2. Secured(t)'
  BY <1>1 DEF Secured, KindOf, RobCounted, Idle
<1>3. ASSUME NEW u \in Txns, u # t PROVE Secured(u)'
  <2>1. txn'[u] = txn[u] /\ Secured(u) /\ IInv
    BY <1>3 DEF SafeInv, IInv, TypeOK, End
  <2>2. LocksMove(t)
    BY DEF LocksMove, End
  <2>3. \A x \in Rows : lock[x] = u => lock'[x] = u
    BY <1>3, <2>1, <2>2, OthersKeepLocks
  <2> QED
    BY <1>3, <2>1, <2>3, OthersStaySecured
<1> QED
  BY <1>2, <1>3

\* An assignment gives its order to the driver it has locked, and to no other.
Assigns(t) ==
    /\ lock[txn[t].driver] = t
    /\ Assignable(txn[t].driver)
    /\ \A o \in Orders :
          order'[o] # order[o] =>
              /\ txn[t].pc = "write"
              /\ txn[t].kind \in {"auto", "manual"}
              /\ order'[o].driver = txn[t].driver
              /\ order'[o].source = "AUTO" /\ order[o].source # "AUTO" => txn[t].kind = "auto"

\* Both kinds of commits write for the driver they have locked.
LEMMA CommitsAssign ==
    ASSUME SafeInv, NEW t \in Txns, AutoCommit(t) \/ ManualCommit(t)
    PROVE  Assigns(t) /\ End(t) /\ UNCHANGED account /\ txn[t].driver \in Drivers
<1>1. /\ txn[t].pc = "write" /\ txn[t].kind \in {"auto", "manual"}
      /\ lock[txn[t].driver] = t /\ Assignable(txn[t].driver) /\ txn[t].driver \in Drivers
  BY DEF SafeInv, Secured, KindOf, AutoCommit, ManualCommit
<1>2. End(t) /\ UNCHANGED account
  BY DEF AutoCommit, ManualCommit
<1>3. CASE AutoCommit(t)
  <2>1. txn[t].kind = "auto"
    BY <1>3 DEF AutoCommit
  <2>2. \/ order' = order
        \/ order' = [order EXCEPT ![txn[t].order] =
                        [status |-> "DISPATCHED", driver |-> txn[t].driver, source |-> "AUTO"]]
    BY <1>3, Zenon DEF AutoCommit
  <2> QED
    BY <1>1, <1>2, <2>1, <2>2 DEF Assigns, SafeInv, IInv, TypeOK
<1>4. CASE ManualCommit(t)
  <2> DEFINE p == txn[t].order
             s == IF txn[t].snap \in {"PLACED", "DISPATCHED"} THEN "DISPATCHED"
                  ELSE order[p].status
             c == IF txn[t].snap = "PLACED" THEN "MANUAL" ELSE order[p].source
  <2>1. \/ order' = order
        \/ order' = [order EXCEPT ![p].driver = txn[t].driver, ![p].status = s,
                                  ![p].source = c]
    BY <1>4 DEF ManualCommit
  <2>2. c = "MANUAL" \/ c = order[p].source
    OBVIOUS
  <2> HIDE DEF s, c
  <2>3. ASSUME NEW o \in Orders, order'[o] # order[o]
        PROVE  /\ order'[o].driver = txn[t].driver
               /\ ~(order'[o].source = "AUTO" /\ order[o].source # "AUTO")
    <3>1. o = p /\ order[p] \in Row
      BY <2>1, <2>3 DEF SafeInv, IInv, TypeOK
    <3>2. order'[p] = [order[p] EXCEPT !.driver = txn[t].driver, !.status = s, !.source = c]
      BY <2>1, <2>3, <3>1 DEF SafeInv, IInv, TypeOK
    <3>3. order'[p].driver = txn[t].driver /\ order'[p].source = c
      BY <3>1, <3>2 DEF Row
    <3> QED
      BY <2>2, <3>1, <3>3
  <2> QED
    BY <1>1, <1>2, <2>3 DEF Assigns
<1> QED
  BY <1>3, <1>4

\* Commits of assignments.
LEMMA CommitsSafe ==
    ASSUME SafeInv, NEW t \in Txns, AutoCommit(t) \/ ManualCommit(t)
    PROVE  (\A u \in Txns : Secured(u))' /\ UnfinishedKeepsAccess'
<1>1. Assigns(t) /\ End(t) /\ UNCHANGED account /\ txn[t].driver \in Drivers
  BY CommitsAssign
<1>2. ASSUME NEW d \in Drivers, lock[d] # t, NEW o \in Orders, Carries(d, o)'
      PROVE  Carries(d, o)
  <2>1. order'[o].driver = d /\ d # txn[t].driver
    BY <1>1, <1>2 DEF Carries, Assigns
  <2>2. order'[o] = order[o]
    BY <1>1, <2>1 DEF Assigns
  <2> QED
    BY <1>2, <2>2 DEF Carries, Unfinished
<1>3. (\A u \in Txns : Secured(u))'
  BY <1>1, <1>2, WriteEnds
<1>4. UnfinishedKeepsAccess'
  <2> SUFFICES ASSUME NEW o \in Orders, Unfinished(o)', order'[o].driver # NoDriver
               PROVE  account'[order'[o].driver].access
    BY DEF UnfinishedKeepsAccess
  <2>1. CASE order'[o] = order[o]
    BY <1>1, <2>1 DEF SafeInv, UnfinishedKeepsAccess, Unfinished
  <2>2. CASE order'[o] # order[o]
    BY <1>1, <2>2 DEF Assigns, Assignable
  <2> QED
    BY <2>1, <2>2
<1> QED
  BY <1>3, <1>4

\* A driver whose access is taken carries nothing.
LEMMA AccessSafe ==
    ASSUME SafeInv, NEW t \in Txns, AccessCommit(t)
    PROVE  (\A u \in Txns : Secured(u))' /\ UnfinishedKeepsAccess'
<1>1. /\ lock[txn[t].driver] = t /\ txn[t].driver \in Drivers
      /\ \A o \in Orders : ~Carries(txn[t].driver, o)
      /\ End(t) /\ UNCHANGED order
  BY DEF SafeInv, Secured, KindOf, AccessCommit
<1>2. \A d \in Drivers : d # txn[t].driver => account'[d] = account[d]
  BY DEF AccessCommit, SafeInv, IInv, TypeOK
<1>3. \A d : \A o \in Orders : Carries(d, o)' <=> Carries(d, o)
  BY <1>1 DEF Carries, Unfinished
<1>4. (\A u \in Txns : Secured(u))'
  BY <1>1, <1>2, <1>3, WriteEnds
<1>5. UnfinishedKeepsAccess'
  <2> SUFFICES ASSUME NEW o \in Orders, Unfinished(o)', order'[o].driver # NoDriver
               PROVE  account'[order'[o].driver].access
    BY DEF UnfinishedKeepsAccess
  <2>1. order'[o].driver = order[o].driver /\ Unfinished(o) /\ order[o].driver \in Drivers
    BY <1>1 DEF Unfinished, SafeInv, IInv, TypeOK, Row
  <2>2. order[o].driver # txn[t].driver
    BY <1>1, <2>1 DEF Carries
  <2> QED
    BY <1>2, <2>1, <2>2 DEF SafeInv, UnfinishedKeepsAccess
<1> QED
  BY <1>4, <1>5

\* A single statement adds no delivery to a driver, takes no access, and writes
\* no locked account.
LEMMA StatementSafe ==
    ASSUME SafeInv, Statement
    PROVE  (\A u \in Txns : Secured(u))' /\ UnfinishedKeepsAccess'
<1>1. UNCHANGED lock /\ UNCHANGED txn
  BY Zenon DEF Statement, ChangeStatus, Unassign, SetPresence, RestoreAccess
<1>2. ASSUME NEW d \in Drivers, NEW o \in Orders, Carries(d, o)' PROVE Carries(d, o)
  <2>1. ASSUME NEW p \in Orders, NEW s \in Statuses, ChangeStatus(p, s)
        PROVE  Carries(d, o)
    <3>1. order[p].status \in operationalStatuses
      BY <2>1 DEF ChangeStatus, evaluateOrderStatusTransition, SafeInv, IInv, TypeOK, Row,
         Statuses, FinalStatuses
    <3>2. order' = [order EXCEPT ![p].status = s]
      BY <2>1 DEF ChangeStatus
    <3>3. order'[o].driver = order[o].driver /\ (o # p => order'[o].status = order[o].status)
      BY <3>2 DEF SafeInv, IInv, TypeOK, Row
    <3> QED
      BY <1>2, <3>1, <3>3 DEF Carries, Unfinished
  <2>2. ASSUME NEW p \in Orders, Unassign(p) PROVE Carries(d, o)
    <3>1. o # p => order'[o] = order[o]
      BY <2>2 DEF Unassign, SafeInv, IInv, TypeOK
    <3>2. order'[p].driver = NoDriver
      BY <2>2 DEF Unassign, SafeInv, IInv, TypeOK, Row
    <3>3. d # NoDriver
      BY AllocationAssumption
    <3> QED
      BY <1>2, <3>1, <3>2, <3>3 DEF Carries, Unfinished
  <2>3. CASE UNCHANGED order
    BY <1>2, <2>3 DEF Carries, Unfinished
  <2> QED
    BY <2>1, <2>2, <2>3 DEF Statement, SetPresence, RestoreAccess
<1>3. ASSUME NEW d \in Drivers
      PROVE  /\ lock[d] # NoTxn => account'[d] = account[d]
             /\ account[d].access => account'[d].access
  <2>1. ASSUME NEW e \in Drivers, SetPresence(e)
        PROVE  /\ lock[d] # NoTxn => account'[d] = account[d]
               /\ account[d].access => account'[d].access
    BY <2>1 DEF SetPresence, SafeInv, IInv, TypeOK, Account
  <2>2. ASSUME NEW e \in Drivers, RestoreAccess(e)
        PROVE  /\ lock[d] # NoTxn => account'[d] = account[d]
               /\ account[d].access => account'[d].access
    BY <2>2 DEF RestoreAccess, SafeInv, IInv, TypeOK, Account
  <2>3. CASE UNCHANGED account
    BY <2>3
  <2> QED
    BY <2>1, <2>2, <2>3, Zenon DEF Statement, ChangeStatus, Unassign
<1>4. ASSUME NEW u \in Txns PROVE Secured(u)'
  <2>1. Secured(u) /\ txn'[u] = txn[u] /\ u # NoTxn /\ IInv
    BY <1>1, AllocationAssumption DEF SafeInv
  <2>2. \A x \in Rows : lock[x] = u => lock'[x] = u
    BY <1>1
  <2> QED
    BY <1>2, <1>3, <2>1, <2>2, OthersStaySecured
<1>5. UnfinishedKeepsAccess'
  <2> SUFFICES ASSUME NEW o \in Orders, Unfinished(o)', order'[o].driver # NoDriver
               PROVE  account'[order'[o].driver].access
    BY DEF UnfinishedKeepsAccess
  <2> DEFINE d == order'[o].driver
  <2>1. d \in Drivers
    BY StatementKeeps DEF SafeInv, IInv, TypeOK, Row
  <2>2. Carries(d, o)
    BY <1>2, <2>1 DEF Carries
  <2>3. account[d].access
    BY <2>1, <2>2, AllocationAssumption DEF Carries, SafeInv, UnfinishedKeepsAccess
  <2> QED
    BY <1>3, <2>1, <2>3
<1> QED
  BY <1>4, <1>5

\* The invariant is inductive.
LEMMA SafeInductive == Spec => []SafeInv
<1>1. Init => SafeInv
  <2> SUFFICES ASSUME Init PROVE SafeInv
    OBVIOUS
  <2>1. \A t \in Txns : txn[t] = Idle
    BY DEF Init
  <2>2. \A t \in Txns : Secured(t)
    BY <2>1 DEF Secured, KindOf, RobCounted, Idle
  <2>3. UnfinishedKeepsAccess
    BY DEF Init, UnfinishedKeepsAccess
  <2>4. IInv
    BY InitIInv
  <2> QED
    BY <2>2, <2>3, <2>4 DEF SafeInv
<1>2. SafeInv /\ [Next]_vars => SafeInv'
  <2> SUFFICES ASSUME SafeInv, [Next]_vars PROVE SafeInv'
    OBVIOUS
  <2> DEFINE Goal == (\A u \in Txns : Secured(u))' /\ UnfinishedKeepsAccess'
  <2>1. IInv'
    BY NextIInv DEF SafeInv
  <2>2. ASSUME UNCHANGED vars PROVE Goal
    <3>1. ASSUME NEW u \in Txns PROVE Secured(u)'
      <4>1. \A d \in Drivers : \A o \in Orders : Carries(d, o)' => Carries(d, o)
        BY <2>2 DEF vars, Carries, Unfinished
      <4>2. txn' = txn /\ lock' = lock /\ account' = account /\ Secured(u) /\ IInv
        BY <2>2 DEF vars, SafeInv
      <4> QED
        BY <4>1, <4>2, OthersStaySecured
    <3>2. UnfinishedKeepsAccess'
      BY <2>2 DEF vars, SafeInv, UnfinishedKeepsAccess, Unfinished
    <3> QED
      BY <3>1, <3>2
  <2>3. ASSUME NEW t \in Txns, Begin(t) PROVE Goal
    BY <2>3, BeginSafe
  <2>4. ASSUME NEW t \in Txns, Progress(t) PROVE Goal
    <3>1. ASSUME AutoOrderChanged(t) PROVE Goal
      BY <3>1, QuietEnd DEF AutoOrderChanged
    <3>2. ASSUME AutoLockOrder(t) \/ ManualLockOrder(t) PROVE Goal
      BY <3>2, OrderLockSafe
    <3>3. ASSUME AutoReadDrivers(t) PROVE Goal
      BY <3>3, ReadDriversSafe
    <3>4. ASSUME AutoLockRob(t) PROVE Goal
      BY <3>4, RobLockSafe
    <3>5. ASSUME AutoCount(t) PROVE Goal
      BY <3>5, CountSafe
    <3>6. ASSUME AutoSelect(t) PROVE Goal
      BY <3>6, SelectSafe
    <3>7. ASSUME LockDriver(t) PROVE Goal
      BY <3>7, LockDriverSafe
    <3>8. ASSUME AutoCommit(t) \/ ManualCommit(t) PROVE Goal
      BY <3>8, CommitsSafe
    <3>9. ASSUME lockStaffAccount(t) PROVE Goal
      BY <3>9, AccountLockSafe
    <3>10. ASSUME CountUnfinished(t) PROVE Goal
      BY <3>10, CountUnfinishedSafe
    <3>11. ASSUME AccessCommit(t) PROVE Goal
      BY <3>11, AccessSafe
    <3> HIDE DEF Goal
    <3> QED
      BY <2>4, <3>1, <3>2, <3>3, <3>4, <3>5, <3>6, <3>7, <3>8, <3>9, <3>10, <3>11
      DEF Progress
  <2>5. ASSUME NEW t \in Txns, Rollback(t) PROVE Goal
    BY <2>5, QuietEnd DEF Rollback
  <2>6. ASSUME Statement PROVE Goal
    BY <2>6, StatementSafe
  <2>7. Goal
    <3> HIDE DEF Goal
    <3> QED
      BY <2>2, <2>3, <2>4, <2>5, <2>6 DEF Next
  <2> QED
    BY <2>1, <2>7 DEF SafeInv
<1> QED
  BY <1>1, <1>2, PTL DEF Spec

\* "An order cannot be assigned between checking unfinished deliveries and
\* deactivating a driver": a driver with unfinished deliveries keeps access.
THEOREM UnfinishedDriversKeepAccess == Spec => []UnfinishedKeepsAccess
<1>1. SafeInv => UnfinishedKeepsAccess
  BY DEF SafeInv
<1> QED
  BY <1>1, SafeInductive, PTL

\* Only commits of assignments give an order to a driver or mark it as automatic.
LEMMA OnlyCommitsAssign ==
    ASSUME SafeInv, Next, NEW o \in Orders,
           \/ order'[o].driver # order[o].driver /\ order'[o].driver # NoDriver
           \/ order'[o].source = "AUTO" /\ order[o].source # "AUTO"
    PROVE  \E t \in Txns : AutoCommit(t) \/ ManualCommit(t)
<1>1. order' # order
  OBVIOUS
<1>2. ASSUME NEW p \in Orders, NEW s \in Statuses, ChangeStatus(p, s) PROVE FALSE
  BY <1>2 DEF ChangeStatus, SafeInv, IInv, TypeOK, Row
<1>3. ASSUME NEW p \in Orders, Unassign(p) PROVE FALSE
  <2>1. o = p
    BY <1>3 DEF Unassign, SafeInv, IInv, TypeOK
  <2>2. order'[o].driver = NoDriver /\ order'[o].source \in {"NONE", order[o].source}
    BY <1>3, <2>1 DEF Unassign, SafeInv, IInv, TypeOK, Row
  <2> QED
    BY <2>2
<1>4. ASSUME NEW t \in Txns, Begin(t) PROVE UNCHANGED order
  BY <1>4 DEF Begin, AutoBegin, ManualBegin, AccessBegin
<1>5. ASSUME NEW t \in Txns, Progress(t), ~AutoCommit(t), ~ManualCommit(t)
      PROVE  UNCHANGED order
  BY <1>5, Zenon DEF Progress, AutoLockOrder, AutoOrderChanged, AutoReadDrivers, AutoLockRob,
     AutoCount, AutoSelect, LockDriver, ManualLockOrder, lockStaffAccount, CountUnfinished,
     AccessCommit
<1>6. ASSUME NEW t \in Txns, Rollback(t) PROVE UNCHANGED order
  BY <1>6 DEF Rollback
<1> QED
  BY <1>1, <1>2, <1>3, <1>4, <1>5, <1>6, Zenon DEF Next, Statement, SetPresence, RestoreAccess

\* At the instant an assignment commits, its driver may sign in, is visible and
\* online: presence and account changes wait for the locked row.
THEOREM AssignmentsReachOnlineDrivers == Spec => AssignedWhileOnline
<1> DEFINE Given == \A o \in Orders :
              /\ order'[o].driver # order[o].driver
              /\ order'[o].driver # NoDriver
              => account[order'[o].driver].access /\ account[order'[o].driver].online
<1>1. SafeInv /\ [Next]_vars => [Given]_vars
  <2> SUFFICES ASSUME SafeInv, Next, NEW o \in Orders,
                      order'[o].driver # order[o].driver, order'[o].driver # NoDriver
               PROVE  account[order'[o].driver].access /\ account[order'[o].driver].online
    BY DEF vars
  <2>1. PICK t \in Txns : AutoCommit(t) \/ ManualCommit(t)
    BY OnlyCommitsAssign
  <2>2. Assigns(t)
    BY <2>1, CommitsAssign
  <2>3. order'[o].driver = txn[t].driver /\ Assignable(txn[t].driver)
    BY <2>2 DEF Assigns
  <2> QED
    BY <2>3 DEF Assignable
<1> QED
  BY <1>1, SafeInductive, PTL DEF Spec, AssignedWhileOnline

\* With priority on, automatic dispatch gives Rob an order only while his committed
\* deliveries leave a slot free, whatever else assigns to him meanwhile.
THEOREM RobStaysWithinLimit == Spec => RobLimit
<1> DEFINE Given == \A o \in Orders :
              /\ order'[o].source = "AUTO"
              /\ order[o].source # "AUTO"
              /\ order'[o].driver = Rob
              /\ RobPriority
              => Workload(Rob) < Limit
<1>1. SafeInv /\ [Next]_vars => [Given]_vars
  <2> SUFFICES ASSUME SafeInv, Next, NEW o \in Orders, RobPriority, order'[o].driver = Rob,
                      order'[o].source = "AUTO", order[o].source # "AUTO"
               PROVE  Workload(Rob) < Limit
    BY DEF vars
  <2>1. PICK t \in Txns : AutoCommit(t) \/ ManualCommit(t)
    BY OnlyCommitsAssign
  <2>2. Assigns(t)
    BY <2>1, CommitsAssign
  <2>3. txn[t].pc = "write" /\ txn[t].kind = "auto" /\ txn[t].driver = Rob
    BY <2>2 DEF Assigns
  <2> QED
    BY <2>3 DEF SafeInv, Secured, RobCounted
<1> QED
  BY <1>1, SafeInductive, PTL DEF Spec, RobLimit
=============================================================================
