---------------------------- MODULE ServiceProofs ----------------------------
(***************************************************************************)
(* What the services and the loyalty ledger promise, for any number of     *)
(* actors, calls and rows, and for any windows, limits, thresholds and     *)
(* bounds: one inductive invariant for each of them, and the theorems      *)
(* about all of the services side by side.                                 *)
(***************************************************************************)
EXTENDS Loyalty, Services, Sequences, FiniteSetTheorems, WellFoundedInduction, TLAPS

-----------------------------------------------------------------------------
\* Division by a number of minutes, and what is left.
LEMMA Quotients ==
    ASSUME NEW n \in Nat \ {0}, NEW t \in Int
    PROVE  /\ t = n * (t \div n) + (t % n)
           /\ t \div n \in Int /\ t % n \in 0 .. n - 1
    OBVIOUS

LEMMA RemainderOf ==
    ASSUME NEW n \in Nat \ {0}, NEW q \in Int, NEW r \in 0 .. n - 1
    PROVE  (n * q + r) % n = r /\ (n * q + r) \div n = q
    OBVIOUS

LEMMA CycleBegins ==
    ASSUME NEW n \in Nat \ {0}, NEW t \in Nat
    PROVE  (t \div n) * n \in Nat
<1> DEFINE q == t \div n
<1>1. t = n * q + (t % n) /\ q \in Int /\ t % n \in 0 .. n - 1
    BY Quotients
<1>2. n * q = q * n /\ n * q \in Int
    BY <1>1
<1> HIDE DEF q
<1>3. q >= 0
    <2> SUFFICES ASSUME q <= -1 PROVE FALSE
        BY <1>1
    <2>1. n * q <= n * (-1)
        BY <1>1
    <2> QED
        BY <1>1, <1>2, <2>1
<1>4. n * q >= 0
    BY <1>1, <1>3
<1> QED
    BY <1>2, <1>4 DEF q

\* A moment k later, as long as k is less than the cycle.
LEMMA LaterRemainder ==
    ASSUME NEW n \in Nat \ {0}, NEW t \in Int, NEW k \in 0 .. n - 1
    PROVE  (t + k) % n = IF (t % n) + k < n THEN (t % n) + k ELSE (t % n) + k - n
<1> DEFINE q == t \div n
           r == t % n
<1>1. t = n * q + r /\ q \in Int /\ r \in 0 .. n - 1
    BY Quotients
<1> HIDE DEF q, r
<1>2. CASE r + k < n
    <2>1. t + k = n * q + (r + k) /\ r + k \in 0 .. n - 1
        BY <1>1, <1>2
    <2>2. (n * q + (r + k)) % n = r + k
        BY <1>1, <2>1, RemainderOf
    <2> QED
        BY <1>2, <2>1, <2>2 DEF r
<1>3. CASE ~(r + k < n)
    <2>1. n * (q + 1) = n * q + n /\ q + 1 \in Int /\ n * q \in Int
        BY <1>1
    <2>2. t + k = n * (q + 1) + (r + k - n) /\ r + k - n \in 0 .. n - 1
        BY <1>1, <1>3, <2>1
    <2>3. (n * (q + 1) + (r + k - n)) % n = r + k - n
        BY <2>1, <2>2, RemainderOf
    <2> QED
        BY <1>3, <2>2, <2>3 DEF r
<1> QED
    BY <1>2, <1>3 DEF r

LEMMA CycleLength ==
    ASSUME NEW a \in Nat \ {0}, NEW b \in Nat \ {0}
    PROVE  a * b \in Nat \ {0} /\ a <= a * b
    OBVIOUS

\* The least of a set of numbers.
LEMMA LeastExists ==
    ASSUME NEW S, S \subseteq Nat, S # {}
    PROVE  \E n \in S : \A m \in S : n <= m
<1>1. IsWellFoundedOn(OpToRel(<, Nat), Nat)
    BY NatLessThanWellFounded
<1>2. PICK n \in S : \A m \in S : ~(<<m, n>> \in OpToRel(<, Nat))
    BY <1>1, WFMin
<1>3. ASSUME NEW m \in S PROVE n <= m
    <2>1. ~(m < n)
        BY <1>2 DEF OpToRel
    <2> QED
        BY <2>1
<1> QED
    BY <1>3

-----------------------------------------------------------------------------
(***************************************************************************)
(* Loyalty                                                                 *)
(***************************************************************************)

\* What RewardLedger says of one row.
Balanced(row) ==
    /\ row.balance = row.earned - row.used
    /\ row.balance >= 0
    /\ (row.freeDelivery = TRUE) <=> row.balance > 0
    /\ row.completed < PerReward

\* resetLoyaltyMonthIfNeeded keeps a row a row and its columns in agreement.
LEMMA ResetRow ==
    ASSUME NEW row \in Account, NEW thisMonth \in Nat
    PROVE  /\ resetLoyaltyMonthIfNeeded(row, thisMonth) \in Account
           /\ Balanced(row) => Balanced(resetLoyaltyMonthIfNeeded(row, thisMonth))
<1>1. CASE row.progressMonth = thisMonth
  BY <1>1, Zenon DEF resetLoyaltyMonthIfNeeded
<1>2. CASE row.progressMonth # thisMonth
  <2> DEFINE r == [row EXCEPT !.completed = 0, !.progressMonth = thisMonth]
  <2>1. r = resetLoyaltyMonthIfNeeded(row, thisMonth)
    BY <1>2, Zenon DEF resetLoyaltyMonthIfNeeded
  <2>2. r \in Account
    BY DEF Account
  <2>3. Balanced(row) => Balanced(r)
    BY LoyaltyAssumption DEF Account, Balanced
  <2> QED
    BY <2>1, <2>2, <2>3, Zenon
<1> QED
  BY <1>1, <1>2

\* Writing the free-delivery flag after other columns keeps a row a row.
LEMMA FlagType ==
    ASSUME NEW row \in Account
    PROVE  /\ [row EXCEPT !.freeDelivery = TRUE] \in Account
           /\ [row EXCEPT !.freeDelivery = FALSE] \in Account
BY DEF Account

\* Writing numbers into the other columns keeps a row a row.
LEMMA ColumnTypes ==
    ASSUME NEW row \in Account, NEW b \in Int, NEW n \in Nat, NEW z \in Nat
    PROVE  /\ [row EXCEPT !.balance = b, !.used = n] \in Account
           /\ [row EXCEPT !.completed = z, !.earned = n, !.balance = b] \in Account
<1>1. [row EXCEPT !.balance = b, !.used = n] \in Account
  BY DEF Account
<1>2. [row EXCEPT !.completed = z, !.earned = n, !.balance = b] \in Account
  BY DEF Account
<1> QED
  BY <1>1, <1>2

\* redeemFreeDeliveryRewardForOrder takes a reward only where there is one, so the
\* balance never goes below zero.
LEMMA RedeemRow ==
    ASSUME NEW row \in Account, NEW thisMonth \in Nat
    PROVE  /\ redeemFreeDeliveryReward(row, thisMonth) \in Account
           /\ Balanced(row) => Balanced(redeemFreeDeliveryReward(row, thisMonth))
<1> DEFINE r == resetLoyaltyMonthIfNeeded(row, thisMonth)
<1>1. r \in Account /\ (Balanced(row) => Balanced(r))
  BY ResetRow
<1> HIDE DEF r
<1>2. CASE Redeems(r)
  <2>1. CASE r.balance - 1 > 0
    <3> DEFINE s == [r EXCEPT !.balance = r.balance - 1, !.used = r.used + 1,
                              !.freeDelivery = TRUE]
           p == [r EXCEPT !.balance = r.balance - 1, !.used = r.used + 1]
    <3>1. redeemFreeDeliveryReward(row, thisMonth) = s
      BY <1>2, <2>1, Zenon DEF redeemFreeDeliveryReward, r
    <3>2. s \in Account
      <4>1. p \in Account
        <5>1. r.balance - 1 \in Int /\ r.used + 1 \in Nat
          BY <1>1 DEF Account
        <5> QED
          BY <1>1, <5>1, ColumnTypes
      <4>2. s = [p EXCEPT !.freeDelivery = TRUE]
        BY <1>1 DEF Account
      <4> HIDE DEF p, s
      <4> QED
        BY <4>1, <4>2, FlagType
    <3>3. Balanced(r) => Balanced(s)
      BY <1>1, <1>2, <2>1 DEF Redeems, Account, Balanced
    <3> QED
      BY <1>1, <3>1, <3>2, <3>3, Zenon
  <2>2. CASE ~(r.balance - 1 > 0)
    <3> DEFINE s == [r EXCEPT !.balance = r.balance - 1, !.used = r.used + 1,
                              !.freeDelivery = FALSE]
           p == [r EXCEPT !.balance = r.balance - 1, !.used = r.used + 1]
    <3>1. redeemFreeDeliveryReward(row, thisMonth) = s
      <4>1. (r.balance - 1 > 0) = FALSE
        BY <2>2
      <4> QED
        BY <1>2, <4>1, Zenon DEF redeemFreeDeliveryReward, r
    <3>2. s \in Account
      <4>1. p \in Account
        <5>1. r.balance - 1 \in Int /\ r.used + 1 \in Nat
          BY <1>1 DEF Account
        <5> QED
          BY <1>1, <5>1, ColumnTypes
      <4>2. s = [p EXCEPT !.freeDelivery = FALSE]
        BY <1>1 DEF Account
      <4> HIDE DEF p, s
      <4> QED
        BY <4>1, <4>2, FlagType
    <3>3. Balanced(r) => Balanced(s)
      BY <1>1, <1>2, <2>2 DEF Redeems, Account, Balanced
    <3> QED
      BY <1>1, <3>1, <3>2, <3>3, Zenon
  <2> QED
    BY <2>1, <2>2
<1>3. CASE ~Redeems(r)
  BY <1>1, <1>3, Zenon DEF redeemFreeDeliveryReward, r
<1> QED
  BY <1>2, <1>3

\* recordDeliveredOrderLoyalty turns full progress into a reward in the same write.
LEMMA CreditRow ==
    ASSUME NEW row \in Account, NEW thisMonth \in Nat
    PROVE  /\ creditDelivery(row, thisMonth) \in Account
           /\ Balanced(row) => Balanced(creditDelivery(row, thisMonth))
<1> DEFINE r == resetLoyaltyMonthIfNeeded(row, thisMonth)
<1>1. r \in Account /\ (Balanced(row) => Balanced(r))
  BY ResetRow
<1> HIDE DEF r
<1>2. creditDelivery(row, thisMonth) =
        IF r.completed + 1 >= PerReward
        THEN [r EXCEPT !.completed = 0, !.earned = r.earned + 1,
                       !.balance = r.balance + 1, !.freeDelivery = TRUE]
        ELSE [r EXCEPT !.completed = r.completed + 1]
  BY DEF creditDelivery, r
<1>3. CASE r.completed + 1 >= PerReward
  <2> DEFINE s == [r EXCEPT !.completed = 0, !.earned = r.earned + 1,
                            !.balance = r.balance + 1, !.freeDelivery = TRUE]
         p == [r EXCEPT !.completed = 0, !.earned = r.earned + 1,
                        !.balance = r.balance + 1]
  <2>1. s \in Account
    <3>1. p \in Account
      <4>1. r.balance + 1 \in Int /\ r.earned + 1 \in Nat /\ 0 \in Nat
        BY <1>1 DEF Account
      <4> QED
        BY <1>1, <4>1, ColumnTypes
    <3>2. s = [p EXCEPT !.freeDelivery = TRUE]
      BY <1>1 DEF Account
    <3> HIDE DEF p, s
    <3> QED
      BY <3>1, <3>2, FlagType
  <2>2. Balanced(r) => Balanced(s)
    BY <1>1, LoyaltyAssumption DEF Account, Balanced
  <2> QED
    BY <1>1, <1>2, <1>3, <2>1, <2>2, Zenon
<1>4. CASE ~(r.completed + 1 >= PerReward)
  <2> DEFINE s == [r EXCEPT !.completed = r.completed + 1]
  <2>1. s \in Account
    BY <1>1 DEF Account
  <2>2. Balanced(r) => Balanced(s)
    BY <1>1, <1>4, LoyaltyAssumption DEF Account, Balanced
  <2> QED
    BY <1>1, <1>2, <1>4, <2>1, <2>2, Zenon
<1> QED
  BY <1>3, <1>4

-----------------------------------------------------------------------------
(***************************************************************************)
(* The inductive invariant: types, balanced rows, and calls in flight that *)
(* are about an existing customer.                                         *)
(***************************************************************************)

LedgerInv ==
    /\ TypeOK
    /\ \A c \in Customers : Balanced(customer[c])
    /\ \A k \in Calls :
          /\ call[k].pc # "idle" => call[k].customer \in Customers
          /\ call[k].pc \notin {"idle", "snapshot"} => call[k].order \in Orders
    /\ \A o \in Orders : order[o].state # "ABSENT" => order[o].customer \in Customers

\* The row of an order that an app creates.
LEMMA AppOrderRow ==
    ASSUME NEW c \in Customers, NEW redeems
    PROVE  LET made == AppOrder(c, redeems) IN
           /\ made \in Delivery
           /\ made.state = "OPEN" /\ made.customer = c /\ made.creditedTo = NoCustomer
           /\ made.redeemedBy = IF redeems THEN c ELSE NoCustomer
           /\ made.notes = IF redeems THEN "free" ELSE "plain"
<1> DEFINE n == IF redeems THEN "free" ELSE "plain"
           r == IF redeems THEN c ELSE NoCustomer
           made == [Absent EXCEPT !.state = "OPEN", !.customer = c, !.app = TRUE,
                                  !.notes = n, !.redeemedBy = r]
<1>1. n \in {"plain", "free"} /\ r \in Customers \cup {NoCustomer}
  OBVIOUS
<1> HIDE DEF n, r
<1>2. /\ made \in Delivery
      /\ made.state = "OPEN" /\ made.customer = c /\ made.creditedTo = NoCustomer
      /\ made.redeemedBy = r /\ made.notes = n
  BY <1>1 DEF Absent, Delivery
<1>3. AppOrder(c, redeems) = made
  BY Zenon DEF AppOrder, n, r
<1> QED
  BY <1>2, <1>3, Zenon DEF n, r

\* Customer rows start balanced, and no call is in flight.
LEMMA LedgerInit == Init => LedgerInv
<1> SUFFICES ASSUME Init PROVE LedgerInv
  OBVIOUS
<1>1. \A m \in {0, 1} : NewAccount(m) \in Account /\ Balanced(NewAccount(m))
  BY LoyaltyAssumption DEF NewAccount, Account, Balanced
<1>2. customer \in [Customers -> Account] /\ \A c \in Customers : Balanced(customer[c])
  BY <1>1 DEF Init
<1>3. Absent \in Delivery /\ Absent.state = "ABSENT"
  BY DEF Absent, Delivery
<1>4. Idle \in Call /\ Idle.pc = "idle"
  BY DEF Idle, Call
<1> QED
  BY <1>2, <1>3, <1>4 DEF Init, LedgerInv, TypeOK

\* Every transaction of the loyalty service keeps every row balanced.
LEMMA LedgerNext == LedgerInv /\ [Next]_vars => LedgerInv'
<1> SUFFICES ASSUME LedgerInv, [Next]_vars PROVE LedgerInv'
  OBVIOUS
<1> USE DEF LedgerInv
<1>a. Idle \in Call /\ Idle.pc = "idle"
  BY DEF Idle, Call
<1>b. Absent \in Delivery
  BY DEF Absent, Delivery
<1>1. ASSUME NEW k \in Calls, NEW o \in Orders, NEW c \in Customers, RedeemCall(k, o, c)
      PROVE  LedgerInv'
  BY <1>1 DEF RedeemCall, TypeOK, Call
<1>2. ASSUME NEW k \in Calls, RedeemCommit(k) PROVE LedgerInv'
  <2> DEFINE q == call[k]
  <2>1. q \in Call /\ q.customer \in Customers /\ q.order \in Orders
    BY <1>2 DEF RedeemCommit, TypeOK
  <2>2. q.month \in Nat
    BY <2>1 DEF Call
  <2>3. /\ customer' \in [Customers -> Account]
        /\ \A c \in Customers : Balanced(customer'[c])
    BY <1>2, <2>1, <2>2, RedeemRow DEF RedeemCommit, TypeOK
  <2> DEFINE made == AppOrder(q.customer,
                         Redeems(resetLoyaltyMonthIfNeeded(customer[q.customer], q.month)))
  <2>4. made \in Delivery /\ made.customer \in Customers
    BY <2>1, AppOrderRow
  <2>5. /\ order' \in [Orders -> Delivery]
        /\ \A o \in Orders : order'[o].state # "ABSENT" => order'[o].customer \in Customers
    BY <1>2, <2>1, <2>4 DEF RedeemCommit, TypeOK
  <2> QED
    BY <1>2, <1>a, <2>3, <2>5 DEF RedeemCommit, TypeOK
<1>3. ASSUME NEW k \in Calls, Deliver(k) PROVE LedgerInv'
  <2> DEFINE o == call[k].order
  <2>1. /\ call[k] \in Call /\ o \in Orders /\ call[k].customer \in Customers
        /\ order[o] \in Delivery /\ order[o].customer \in Customers
    BY <1>3 DEF Deliver, TypeOK
  <2>2. /\ order' \in [Orders -> Delivery]
        /\ \A p \in Orders : order'[p].state # "ABSENT" => order'[p].customer \in Customers
    BY <1>3, <2>1 DEF Deliver, TypeOK, Delivery
  <2> QED
    BY <1>3, <2>1, <2>2 DEF Deliver, TypeOK, Call
<1>12. ASSUME NEW k \in Calls, NEW o \in Orders, DeliverRead(k, o) PROVE LedgerInv'
  <2>1. order[o] \in Delivery /\ order[o].customer \in Customers
    BY <1>12 DEF DeliverRead, TypeOK
  <2> QED
    BY <1>12, <2>1 DEF DeliverRead, TypeOK, Call
<1>13. ASSUME NEW o \in Orders, NEW c \in Customers, updateOrderDetails(o, c) PROVE LedgerInv'
  <2> DEFINE new == [order[o] EXCEPT !.customer = c, !.notes = "typed"]
  <2>1. order[o] \in Delivery
    BY DEF TypeOK
  <2>2. order' = [order EXCEPT ![o] = new]
    BY <1>13, <2>1 DEF updateOrderDetails, TypeOK
  <2>3. new \in Delivery /\ new.customer = c
    BY <2>1 DEF Delivery
  <2> HIDE DEF new
  <2>4. /\ order' \in [Orders -> Delivery]
        /\ \A p \in Orders : order'[p].state # "ABSENT" => order'[p].customer \in Customers
    BY <2>2, <2>3 DEF TypeOK
  <2> QED
    BY <1>13, <2>4 DEF updateOrderDetails, TypeOK
<1>4. ASSUME NEW k \in Calls, RecordCall(k) PROVE LedgerInv'
  <2>1. call[k] \in Call /\ call[k].customer \in Customers /\ call[k].order \in Orders
    BY <1>4 DEF RecordCall, TypeOK
  <2> QED
    BY <1>4, <1>a, <2>1 DEF RecordCall, TypeOK, Call
<1>5. ASSUME NEW k \in Calls, CreditCommit(k) PROVE LedgerInv'
  <2> DEFINE q == call[k]
  <2>1. q \in Call /\ q.customer \in Customers /\ q.order \in Orders
    BY <1>5 DEF CreditCommit, TypeOK
  <2>2. q.month \in Nat
    BY <2>1 DEF Call
  <2>3. /\ customer' \in [Customers -> Account]
        /\ \A c \in Customers : Balanced(customer'[c])
    BY <1>5, <2>1, <2>2, CreditRow DEF CreditCommit, TypeOK
  <2>4. /\ order' \in [Orders -> Delivery]
        /\ \A o \in Orders : order'[o].state # "ABSENT" => order'[o].customer \in Customers
    BY <1>5, <2>1, <2>2 DEF CreditCommit, TypeOK, Delivery
  <2> QED
    BY <1>5, <1>a, <2>3, <2>4 DEF CreditCommit, TypeOK
<1>6. ASSUME NEW k \in Calls, NEW c \in Customers, SnapshotCall(k, c) PROVE LedgerInv'
  <2>1. [Idle EXCEPT !.pc = "snapshot", !.customer = c, !.month = month]
        \in {q \in Call : q.pc = "snapshot" /\ q.customer = c}
    BY DEF Idle, Call, TypeOK
  <2> QED
    BY <1>6, <2>1 DEF SnapshotCall, TypeOK
<1>7. ASSUME NEW k \in Calls, SnapshotCommit(k) PROVE LedgerInv'
  <2> DEFINE q == call[k]
  <2>1. q \in Call /\ q.customer \in Customers
    BY <1>7 DEF SnapshotCommit, TypeOK
  <2>2. q.month \in Nat
    BY <2>1 DEF Call
  <2>3. /\ customer' \in [Customers -> Account]
        /\ \A c \in Customers : Balanced(customer'[c])
    BY <1>7, <2>1, <2>2, ResetRow DEF SnapshotCommit, TypeOK
  <2> QED
    BY <1>7, <1>a, <2>3 DEF SnapshotCommit, TypeOK
<1>8. ASSUME NEW k \in Calls, Fail(k) PROVE LedgerInv'
  BY <1>8, <1>a DEF Fail, TypeOK
<1>9. ASSUME NEW o \in Orders, NEW c \in Customers, CreateIneligibleOrder(o, c)
      PROVE  LedgerInv'
  <2>1. [Absent EXCEPT !.state = "OPEN", !.customer = c]
        \in {d \in Delivery : d.customer \in Customers}
    BY DEF Absent, Delivery
  <2> QED
    BY <1>9, <2>1 DEF CreateIneligibleOrder, TypeOK
<1>10. CASE NextMonth
  BY <1>10 DEF NextMonth, TypeOK
<1>11. CASE UNCHANGED vars
  BY <1>11 DEF vars, TypeOK
<1> HIDE DEF LedgerInv
<1> QED
  BY <1>1, <1>2, <1>3, <1>4, <1>5, <1>6, <1>7, <1>8, <1>9, <1>10, <1>11, <1>12, <1>13
  DEF Next, CallStep

\* The balance is what was earned and not used, never negative and flagged by
\* loyaltyFreeDelivery, and progress stays below the threshold, whatever the number
\* of customers and of concurrent redemptions, deliveries and resets.
THEOREM LedgerBalances == Spec => []RewardLedger
<1>1. LedgerInv => RewardLedger
  BY DEF LedgerInv, RewardLedger, Balanced
<1> QED
  BY <1>1, LedgerInit, LedgerNext, PTL DEF Spec

\* The loyalty columns, the orders and the calls in flight keep their types.
THEOREM LoyaltyTypes == Spec => []TypeOK
<1>1. LedgerInv => TypeOK
  BY DEF LedgerInv
<1> QED
  BY <1>1, LedgerInit, LedgerNext, PTL DEF Spec

-----------------------------------------------------------------------------
(***************************************************************************)
(* No reward appears or vanishes, for any number of customers, orders and  *)
(* calls in flight and for any threshold: what was earned is backed by     *)
(* distinct delivered app orders, and what was used by orders that used it *)
(* up.                                                                     *)
(*                                                                         *)
(* A call in flight acts on an order it has read or chosen before. OneCall *)
(* says that one call at most is about to create an order or to credit it, *)
(* and in which state the order still is: so a commit adds exactly one     *)
(* order to the sets that are counted, while any number of drivers may be  *)
(* about to deliver the same order and any edit move it.                   *)
(***************************************************************************)

\* The orders that RewardsAccounted counts.
Credits(c) == {o \in Orders : order[o].creditedTo = c /\ order[o].state = "DELIVERED"
                                 /\ order[o].app}
MonthCredits(c, m) == {o \in Orders : order[o].creditedTo = c /\ order[o].creditMonth = m}
Redeemed(c) == {o \in Orders : order[o].redeemedBy = c}

Accounted(c) ==
    /\ customer[c].earned * PerReward + customer[c].completed <= Cardinality(Credits(c))
    /\ customer[c].completed <= Cardinality(MonthCredits(c, customer[c].progressMonth))
    /\ customer[c].used = Cardinality(Redeemed(c))

\* A call that is to create the order or to credit it.
Owns(k) == call[k].pc \in {"redeem", "delivered", "credit"}

OneCall ==
    \A k \in Calls :
        /\ call[k].pc \in {"idle", "snapshot"} => call[k].order = NoOrder
        /\ call[k].pc = "redeem" => order[call[k].order].state = "ABSENT"
        /\ call[k].pc \in {"delivered", "credit"} =>
              /\ order[call[k].order].state = "DELIVERED"
              /\ order[call[k].order].creditedTo = NoCustomer
        /\ call[k].pc = "credit" => order[call[k].order].app = TRUE
        /\ \A j \in Calls : Owns(j) /\ Owns(k) /\ call[j].order = call[k].order => j = k

\* Orders that do not exist yet carry nothing, only delivered app orders are credited,
\* and the notes of an order nobody edited tell of the reward it used up.
Coherent(d) ==
    /\ d.state = "ABSENT" => d = Absent
    /\ d.creditedTo # NoCustomer => d.state = "DELIVERED" /\ d.app = TRUE
    /\ d.notes # "typed" => (d.notes = "free" <=> d.redeemedBy # NoCustomer)

OrdersCoherent == \A o \in Orders : Coherent(order[o])

RewardInv ==
    /\ LedgerInv
    /\ OneCall
    /\ OrdersCoherent
    /\ \A c \in Customers : Accounted(c)

-----------------------------------------------------------------------------
\* Sets of orders are finite, and grow in size with their members.
LEMMA Counts ==
    ASSUME NEW S \in SUBSET Orders
    PROVE  /\ Cardinality(S) \in Nat
           /\ \A T \in SUBSET S : Cardinality(T) <= Cardinality(S)
           /\ \A o \in Orders \ S : Cardinality(S \cup {o}) = Cardinality(S) + 1
<1>1. IsFiniteSet(S)
  BY LoyaltyAssumption, FS_Subset
<1> QED
  BY <1>1, FS_CardinalityType, FS_Subset, FS_AddElement

\* The counts by name.
LEMMA AccountedMeans ==
    ASSUME OrdersCoherent, \A c \in Customers : Accounted(c)
    PROVE  RewardsAccounted
<1>1. ASSUME NEW c \in Customers
      PROVE  LET Credited == {o \in Orders : order[o].creditedTo = c} IN
             /\ customer[c].earned * PerReward + customer[c].completed <=
                   Cardinality({o \in Credited : order[o].state = "DELIVERED"
                                                    /\ order[o].app})
             /\ customer[c].completed <=
                   Cardinality({o \in Credited :
                                   order[o].creditMonth = customer[c].progressMonth})
             /\ customer[c].used = Cardinality({o \in Orders : order[o].redeemedBy = c})
  <2> DEFINE Credited == {o \in Orders : order[o].creditedTo = c}
  <2>1. {o \in Credited : order[o].state = "DELIVERED" /\ order[o].app} = Credits(c)
    BY DEF Credits
  <2>2. {o \in Credited : order[o].creditMonth = customer[c].progressMonth}
           = MonthCredits(c, customer[c].progressMonth)
    BY DEF MonthCredits
  <2>3. {o \in Orders : order[o].redeemedBy = c} = Redeemed(c)
    BY DEF Redeemed
  <2> QED
    BY <2>1, <2>2, <2>3, Zenon DEF Accounted
<1>2. \A o \in Orders :
         order[o].notes # "typed" =>
            (order[o].notes = "free" <=> order[o].redeemedBy # NoCustomer)
  BY DEF OrdersCoherent, Coherent
<1> QED
  BY <1>1, <1>2, Zenon DEF RewardsAccounted

\* resetLoyaltyMonthIfNeeded forgets progress and nothing else.
LEMMA ResetFacts ==
    ASSUME NEW row \in Account, NEW thisMonth \in Nat
    PROVE  LET r == resetLoyaltyMonthIfNeeded(row, thisMonth) IN
           /\ r \in Account
           /\ r.earned = row.earned /\ r.used = row.used /\ r.balance = row.balance
           /\ r.progressMonth = thisMonth
           /\ r.completed = 0 \/ (r.completed = row.completed /\ thisMonth = row.progressMonth)
<1>1. CASE row.progressMonth = thisMonth
  BY <1>1 DEF resetLoyaltyMonthIfNeeded
<1>2. CASE row.progressMonth # thisMonth
  <2> DEFINE r == [row EXCEPT !.completed = 0, !.progressMonth = thisMonth]
  <2>1. r = resetLoyaltyMonthIfNeeded(row, thisMonth)
    BY <1>2, Zenon DEF resetLoyaltyMonthIfNeeded
  <2>2. /\ r \in Account
        /\ r.earned = row.earned /\ r.used = row.used /\ r.balance = row.balance
        /\ r.progressMonth = thisMonth /\ r.completed = 0
    BY DEF Account
  <2> HIDE DEF r
  <2> QED
    BY <2>1, <2>2
<1> QED
  BY <1>1, <1>2

\* A redemption uses one reward, or none when there is none.
LEMMA RedeemFacts ==
    ASSUME NEW row \in Account, NEW thisMonth \in Nat
    PROVE  LET x == redeemFreeDeliveryReward(row, thisMonth)
               r == resetLoyaltyMonthIfNeeded(row, thisMonth)
           IN  /\ x.earned = row.earned /\ x.completed = r.completed
               /\ x.progressMonth = r.progressMonth
               /\ Redeems(r) => x.used = row.used + 1
               /\ ~Redeems(r) => x.used = row.used
<1> DEFINE r == resetLoyaltyMonthIfNeeded(row, thisMonth)
           x == redeemFreeDeliveryReward(row, thisMonth)
<1>1. r \in Account /\ r.earned = row.earned /\ r.used = row.used
  BY ResetFacts
<1>2. CASE Redeems(r)
  <2>1. x = [r EXCEPT !.balance = @ - 1, !.used = @ + 1, !.freeDelivery = r.balance - 1 > 0]
    BY <1>2, Zenon DEF redeemFreeDeliveryReward
  <2> DEFINE b == r.balance - 1
             f == r.balance - 1 > 0
             u == r.used + 1
  <2>2. x = [r EXCEPT !.balance = b, !.used = u, !.freeDelivery = f]
    BY <2>1
  <2>3. u = row.used + 1
    BY <1>1
  <2> HIDE DEF b, f, u, r, x
  <2>4. x.used = u /\ x.earned = r.earned /\ x.completed = r.completed
        /\ x.progressMonth = r.progressMonth
    BY <1>1, <2>2 DEF Account
  <2> QED
    BY <1>1, <1>2, <2>3, <2>4 DEF r, x
<1>3. CASE ~Redeems(r)
  <2>1. x = r
    BY <1>3, Zenon DEF redeemFreeDeliveryReward
  <2> HIDE DEF r, x
  <2> QED
    BY <1>1, <1>3, <2>1 DEF r, x
<1> QED
  BY <1>2, <1>3

\* A credit counts one delivery, and turns PerReward of them into a reward.
LEMMA CreditFacts ==
    ASSUME NEW row \in Account, NEW thisMonth \in Nat, Balanced(row)
    PROVE  LET x == creditDelivery(row, thisMonth) IN
           /\ x.used = row.used
           /\ x.progressMonth = thisMonth
           /\ x.completed <= 1 \/ (thisMonth = row.progressMonth /\ x.completed <= row.completed + 1)
           /\ x.earned * PerReward + x.completed <= row.earned * PerReward + row.completed + 1
<1> DEFINE r == resetLoyaltyMonthIfNeeded(row, thisMonth)
           x == creditDelivery(row, thisMonth)
<1>1. /\ r \in Account /\ r.earned = row.earned /\ r.used = row.used
      /\ r.progressMonth = thisMonth
      /\ r.completed = 0 \/ (r.completed = row.completed /\ thisMonth = row.progressMonth)
  BY ResetFacts
<1>2. row.earned \in Nat /\ row.completed \in Nat /\ r.completed \in Nat /\ r.balance \in Int
      /\ PerReward \in Nat /\ r.completed <= row.completed
  BY <1>1, LoyaltyAssumption DEF Account
<1>3. CASE r.completed + 1 >= PerReward
  <2> DEFINE e == row.earned + 1
             b == r.balance + 1
  <2>1. x = [r EXCEPT !.completed = 0, !.earned = @ + 1, !.balance = @ + 1,
                      !.freeDelivery = TRUE]
    BY <1>3, Zenon DEF creditDelivery
  <2>2. x = [r EXCEPT !.completed = 0, !.earned = e, !.balance = b, !.freeDelivery = TRUE]
    BY <1>1, <2>1
  <2> HIDE DEF e, b, r, x
  <2>3. x.completed = 0 /\ x.earned = e /\ x.used = r.used /\ x.progressMonth = r.progressMonth
    BY <1>1, <2>2 DEF Account
  <2>4. e * PerReward = row.earned * PerReward + PerReward
    BY <1>2 DEF e
  <2>5. row.earned * PerReward \in Nat
    BY <1>2
  <2>6. x.earned * PerReward + x.completed <= row.earned * PerReward + row.completed + 1
    BY <1>2, <1>3, <2>3, <2>4, <2>5
  <2> QED
    BY <1>1, <2>3, <2>6 DEF x
<1>4. CASE ~(r.completed + 1 >= PerReward)
  <2> DEFINE n == r.completed + 1
  <2>1. x = [r EXCEPT !.completed = n]
    BY <1>4 DEF creditDelivery
  <2> HIDE DEF n, r, x
  <2>2. x.completed = n /\ x.earned = r.earned /\ x.used = r.used
        /\ x.progressMonth = r.progressMonth
    BY <1>1, <2>1 DEF Account
  <2>3. row.earned * PerReward \in Nat
    BY <1>2
  <2>4. n <= row.completed + 1 /\ (n <= 1 \/ thisMonth = row.progressMonth)
    BY <1>1, <1>2 DEF n
  <2> QED
    BY <1>1, <1>2, <2>2, <2>3, <2>4 DEF x, n
<1> QED
  BY <1>3, <1>4

-----------------------------------------------------------------------------
\* A step that credits nothing: the customer's progress is kept or forgotten.
LEMMA Uncredited ==
    ASSUME TypeOK, NEW c \in Customers, Accounted(c),
           customer'[c].earned = customer[c].earned,
           \/ customer'[c].completed = 0
           \/ /\ customer'[c].completed = customer[c].completed
              /\ customer'[c].progressMonth = customer[c].progressMonth,
           \A o \in Orders : order[o].creditedTo = c =>
              /\ order'[o].creditedTo = c
              /\ order'[o].creditMonth = order[o].creditMonth
              /\ order[o].state = "DELIVERED" => order'[o].state = "DELIVERED"
              /\ order'[o].app = order[o].app,
           customer'[c].used = Cardinality(Redeemed(c)')
    PROVE  Accounted(c)'
<1>1. PICK m : m = customer'[c].progressMonth
  OBVIOUS
<1> DEFINE S == Credits(c)
           T == {o \in Orders : order'[o].creditedTo = c /\ order'[o].state = "DELIVERED"
                                   /\ order'[o].app}
           U == MonthCredits(c, m)
           V == {o \in Orders : order'[o].creditedTo = c /\ order'[o].creditMonth = m}
<1>2. S \in SUBSET T /\ T \in SUBSET Orders /\ U \in SUBSET V /\ V \in SUBSET Orders
  BY DEF Credits, MonthCredits
<1>3. T = Credits(c)' /\ V = MonthCredits(c, m)'
  BY DEF Credits, MonthCredits
<1> HIDE DEF S, T, U, V
<1>4. /\ Cardinality(S) <= Cardinality(T) /\ Cardinality(U) <= Cardinality(V)
      /\ {Cardinality(S), Cardinality(T), Cardinality(U), Cardinality(V)} \subseteq Nat
  <2>1. S \in SUBSET Orders /\ U \in SUBSET Orders
    BY <1>2
  <2> QED
    BY <1>2, <2>1, Counts
<1>5. customer[c].earned \in Nat /\ customer[c].completed \in Nat /\ PerReward \in Nat
  BY LoyaltyAssumption DEF TypeOK, Account
<1>6. customer[c].earned * PerReward \in Nat
  BY <1>5
<1>7. customer'[c].earned * PerReward + customer'[c].completed <= Cardinality(T)
  BY <1>4, <1>5, <1>6 DEF Accounted, S
<1>8. customer'[c].completed <= Cardinality(V)
  BY <1>1, <1>4, <1>5 DEF Accounted, U
<1> QED
  BY <1>3, <1>7, <1>8, <1>1 DEF Accounted, MonthCredits, V

\* A step that writes neither the loyalty columns nor what is counted of orders.
LEMMA Untouched ==
    ASSUME TypeOK, NEW c \in Customers, Accounted(c), customer'[c] = customer[c],
           \A o \in Orders :
              /\ order'[o].creditedTo = order[o].creditedTo
              /\ order'[o].creditMonth = order[o].creditMonth
              /\ order'[o].app = order[o].app \/ order[o].creditedTo = NoCustomer
              /\ order[o].state = "DELIVERED" => order'[o].state = "DELIVERED"
              /\ order'[o].redeemedBy = c <=> order[o].redeemedBy = c
    PROVE  Accounted(c)'
<1>1. Redeemed(c)' = Redeemed(c)
  BY DEF Redeemed
<1>2. c # NoCustomer
  BY LoyaltyAssumption
<1> QED
  BY <1>1, <1>2, Uncredited DEF Accounted

\* A reset of the month alone.
LEMMA SnapshotAccounts ==
    ASSUME RewardInv, NEW k \in Calls, SnapshotCommit(k), NEW c \in Customers
    PROVE  Accounted(c)'
<1>1. TypeOK /\ Accounted(c) /\ call[k].month \in Nat /\ customer[c] \in Account
  BY DEF RewardInv, LedgerInv, TypeOK, Call
<1>2. order' = order /\ Redeemed(c)' = Redeemed(c)
  BY DEF SnapshotCommit, Redeemed
<1>3. CASE c # call[k].customer
  <2>1. customer'[c] = customer[c]
    BY <1>1, <1>3 DEF SnapshotCommit, TypeOK
  <2> QED
    BY <1>1, <1>2, <2>1, Untouched
<1>4. CASE c = call[k].customer
  <2> DEFINE r == resetLoyaltyMonthIfNeeded(customer[c], call[k].month)
  <2>1. customer'[c] = r
    BY <1>1, <1>4 DEF SnapshotCommit, TypeOK
  <2>2. /\ r.earned = customer[c].earned /\ r.used = customer[c].used
        /\ r.completed = 0
           \/ (r.completed = customer[c].completed /\ r.progressMonth = customer[c].progressMonth)
    BY <1>1, ResetFacts
  <2> HIDE DEF r
  <2>3. customer'[c].used = Cardinality(Redeemed(c)')
    BY <1>1, <1>2, <2>1, <2>2 DEF Accounted
  <2> QED
    BY <1>1, <1>2, <2>1, <2>2, <2>3, Uncredited
<1> QED
  BY <1>3, <1>4

\* A redemption makes one order for one reward used.
LEMMA RedeemAccounts ==
    ASSUME RewardInv, NEW k \in Calls, RedeemCommit(k), NEW c \in Customers
    PROVE  Accounted(c)'
<1> DEFINE q == call[k]
           r == resetLoyaltyMonthIfNeeded(customer[q.customer], q.month)
           free == Redeems(r)
<1>1. /\ TypeOK /\ Accounted(c) /\ q.month \in Nat /\ customer[c] \in Account
      /\ q.customer \in Customers /\ q.order \in Orders
      /\ order[q.order] = Absent /\ c # NoCustomer /\ r \in Account
  <2>1. q.pc = "redeem"
    BY DEF RedeemCommit
  <2>2. /\ TypeOK /\ Accounted(c) /\ q.month \in Nat /\ customer[c] \in Account
        /\ q.customer \in Customers /\ q.order \in Orders
        /\ order[q.order] = Absent /\ c # NoCustomer
    BY <2>1, LoyaltyAssumption
    DEF RewardInv, LedgerInv, TypeOK, Call, OneCall, OrdersCoherent, Coherent
  <2> QED
    BY <2>2, ResetFacts DEF TypeOK
<1>2. /\ order'[q.order].redeemedBy = IF free THEN q.customer ELSE NoCustomer
      /\ order'[q.order].creditedTo = NoCustomer
      /\ \A o \in Orders : o # q.order => order'[o] = order[o]
  <2> DEFINE made == AppOrder(q.customer, free)
  <2>1. order' = [order EXCEPT ![q.order] = made]
    BY DEF RedeemCommit
  <2>2. /\ made.redeemedBy = IF free THEN q.customer ELSE NoCustomer
        /\ made.creditedTo = NoCustomer
    BY <1>1, AppOrderRow
  <2> HIDE DEF made, q, free
  <2> QED
    BY <1>1, <2>1, <2>2 DEF TypeOK
<1>3. \A o \in Orders : order[o].creditedTo = c => order'[o] = order[o]
  BY <1>1, <1>2 DEF Absent
<1>4. Redeemed(c)' = IF free /\ c = q.customer THEN Redeemed(c) \cup {q.order} ELSE Redeemed(c)
  <2>1. q.order \notin Redeemed(c)
    BY <1>1 DEF Redeemed, Absent
  <2>2. CASE free /\ c = q.customer
    <3> HIDE DEF q, free
    <3> QED
      BY <1>1, <1>2, <2>2 DEF Redeemed
  <2>3. CASE ~(free /\ c = q.customer)
    <3>1. order'[q.order].redeemedBy # c
      <4> HIDE DEF q, free
      <4> QED
        BY <1>1, <1>2, <2>3
    <3> HIDE DEF q, free
    <3>2. \A o \in Orders : o \in Redeemed(c)' <=> o \in Redeemed(c)
      BY <1>2, <2>1, <3>1 DEF Redeemed
    <3>3. Redeemed(c)' \subseteq Orders /\ Redeemed(c) \subseteq Orders
      BY DEF Redeemed
    <3> QED
      BY <2>3, <3>2, <3>3
  <2> QED
    BY <2>2, <2>3
<1>5. CASE c # q.customer
  <2>1. customer'[c] = customer[c]
    BY <1>1, <1>5 DEF RedeemCommit, TypeOK
  <2>2. customer'[c].used = Cardinality(Redeemed(c)')
    BY <1>1, <1>4, <1>5, <2>1 DEF Accounted
  <2> HIDE DEF q, free, r
  <2> QED
    BY <1>1, <1>3, <2>1, <2>2, Uncredited
<1>6. CASE c = q.customer
  <2> DEFINE x == redeemFreeDeliveryReward(customer[c], q.month)
  <2>1. customer'[c] = x
    BY <1>1, <1>6 DEF RedeemCommit, TypeOK
  <2>2. /\ x.earned = customer[c].earned /\ x.completed = r.completed
        /\ x.progressMonth = r.progressMonth
        /\ free => x.used = customer[c].used + 1
        /\ ~free => x.used = customer[c].used
    BY <1>1, <1>6, RedeemFacts
  <2>3. r.completed = 0 \/ (r.completed = customer[c].completed
                               /\ r.progressMonth = customer[c].progressMonth)
    <3>1. r = resetLoyaltyMonthIfNeeded(customer[c], q.month)
      BY <1>6
    <3>2. customer[c] \in Account /\ q.month \in Nat
      BY <1>1
    <3> HIDE DEF q, r, x, free
    <3> QED
      BY <3>1, <3>2, ResetFacts, SMT
  <2>4. customer'[c].used = Cardinality(Redeemed(c)')
    <3>1. q.order \notin Redeemed(c) /\ Redeemed(c) \in SUBSET Orders
      BY <1>1 DEF Redeemed, Absent
    <3> HIDE DEF q, free, r, x
    <3>2. CASE free
      <4>1. Cardinality(Redeemed(c)') = Cardinality(Redeemed(c)) + 1
        BY <1>1, <1>4, <1>6, <3>1, <3>2, Counts
      <4> QED
        BY <1>1, <2>1, <2>2, <3>2, <4>1 DEF Accounted
    <3>3. CASE ~free
      BY <1>1, <1>4, <2>1, <2>2, <3>3 DEF Accounted
    <3> QED
      BY <3>2, <3>3
  <2> HIDE DEF q, free, r, x
  <2> QED
    BY <1>1, <1>3, <2>1, <2>2, <2>3, <2>4, Uncredited
<1> QED
  BY <1>5, <1>6

\* A credit adds one delivered app order to what the customer's columns count.
LEMMA CreditAccounts ==
    ASSUME RewardInv, NEW k \in Calls, CreditCommit(k), NEW c \in Customers
    PROVE  Accounted(c)'
<1> DEFINE q == call[k]
<1>1. /\ TypeOK /\ Accounted(c) /\ q.month \in Nat /\ customer[c] \in Account
      /\ q.customer \in Customers /\ q.order \in Orders
      /\ order[q.order].state = "DELIVERED" /\ order[q.order].app = TRUE
      /\ order[q.order].creditedTo = NoCustomer /\ c # NoCustomer
      /\ order[q.order] \in Delivery
  <2>1. q.pc = "credit"
    BY DEF CreditCommit
  <2> QED
    BY <2>1, LoyaltyAssumption DEF RewardInv, LedgerInv, TypeOK, Call, OneCall
<1>2. /\ order'[q.order].redeemedBy = order[q.order].redeemedBy
      /\ order'[q.order].state = "DELIVERED" /\ order'[q.order].app = TRUE
      /\ order'[q.order].creditedTo = q.customer
      /\ order'[q.order].creditMonth = q.month
      /\ \A o \in Orders : o # q.order => order'[o] = order[o]
  <2> DEFINE new == [order[q.order] EXCEPT !.creditedTo = q.customer, !.creditMonth = q.month]
  <2>1. order' = [order EXCEPT ![q.order] = new]
    BY <1>1 DEF CreditCommit, TypeOK
  <2>2. /\ new.redeemedBy = order[q.order].redeemedBy
        /\ new.state = order[q.order].state /\ new.app = order[q.order].app
        /\ new.creditedTo = q.customer /\ new.creditMonth = q.month
    BY <1>1 DEF Delivery
  <2> HIDE DEF new, q
  <2> QED
    BY <1>1, <2>1, <2>2 DEF TypeOK
<1>3. Redeemed(c)' = Redeemed(c)
  <2> HIDE DEF q
  <2>1. \A o \in Orders : order'[o].redeemedBy = order[o].redeemedBy
    BY <1>1, <1>2
  <2> QED
    BY <2>1 DEF Redeemed
<1>4. CASE c # q.customer
  <2>1. customer'[c] = customer[c]
    BY <1>1, <1>4 DEF CreditCommit, TypeOK
  <2>2. customer'[c].used = Cardinality(Redeemed(c)')
    BY <1>1, <1>3, <2>1 DEF Accounted
  <2> HIDE DEF q
  <2>3. \A o \in Orders : order[o].creditedTo = c => order'[o] = order[o]
    BY <1>1, <1>2
  <2> QED
    BY <1>1, <2>1, <2>2, <2>3, Uncredited
<1>5. CASE c = q.customer
  <2> DEFINE x == creditDelivery(customer[c], q.month)
             m == q.month
             p == q.order
             S == Credits(c)
             T == {o \in Orders : order'[o].creditedTo = c /\ order'[o].state = "DELIVERED"
                                     /\ order'[o].app}
             U == MonthCredits(c, m)
             V == {o \in Orders : order'[o].creditedTo = c /\ order'[o].creditMonth = m}
  <2>1. customer'[c] = x
    BY <1>1, <1>5 DEF CreditCommit, TypeOK
  <2>2. /\ x.used = customer[c].used
        /\ x.progressMonth = m
        /\ x.completed <= 1
           \/ (m = customer[c].progressMonth /\ x.completed <= customer[c].completed + 1)
        /\ x.earned * PerReward + x.completed
              <= customer[c].earned * PerReward + customer[c].completed + 1
    <3>1. Balanced(customer[c])
      BY DEF RewardInv, LedgerInv
    <3> QED
      BY <1>1, <3>1, CreditFacts
  <2>3. x \in Account
    BY <1>1, CreditRow
  <2> HIDE DEF x, q, m, p
  <2>4. S \cup {p} = T /\ p \notin S /\ S \in SUBSET Orders /\ p \in Orders
    BY <1>1, <1>2, <1>5 DEF Credits, p
  <2>5. U \cup {p} = V /\ p \notin U /\ U \in SUBSET Orders
    BY <1>1, <1>2, <1>5 DEF MonthCredits, p, m
  <2>6. T = Credits(c)' /\ \A n : n = m => V = MonthCredits(c, n)'
    BY DEF Credits, MonthCredits
  <2> HIDE DEF S, T, U, V
  <2>7. /\ Cardinality(T) = Cardinality(S) + 1 /\ Cardinality(S) \in Nat
        /\ Cardinality(V) = Cardinality(U) + 1 /\ Cardinality(U) \in Nat
    BY <2>4, <2>5, Counts
  <2>8. /\ x.completed \in Nat /\ x.earned \in Nat /\ customer[c].completed \in Nat
        /\ customer[c].earned \in Nat /\ PerReward \in Nat
    BY <1>1, <2>3, LoyaltyAssumption DEF Account
  <2>9. x.earned * PerReward + x.completed <= Cardinality(T)
    <3>1. x.earned * PerReward \in Nat /\ customer[c].earned * PerReward \in Nat
      BY <2>8
    <3>2. customer[c].earned * PerReward + customer[c].completed <= Cardinality(S)
      BY <1>1 DEF Accounted, S
    <3> QED
      BY <2>2, <2>7, <2>8, <3>1, <3>2
  <2>10. x.completed <= Cardinality(V)
    <3>1. m = customer[c].progressMonth => customer[c].completed <= Cardinality(U)
      BY <1>1 DEF Accounted, U
    <3> QED
      BY <2>2, <2>7, <2>8, <3>1
  <2>11. x.used = Cardinality(Redeemed(c)')
    BY <1>1, <1>3, <2>2 DEF Accounted
  <2> QED
    BY <2>1, <2>2, <2>6, <2>9, <2>10, <2>11 DEF Accounted, MonthCredits, V
<1> QED
  BY <1>4, <1>5

-----------------------------------------------------------------------------
\* Calls that begin on an order nobody works on, or end, leave one call for each.
LEMMA RedeemCallKeeps ==
    ASSUME RewardInv, NEW k \in Calls, NEW o \in Orders, NEW c \in Customers,
           RedeemCall(k, o, c)
    PROVE  OneCall' /\ OrdersCoherent'
<1> DEFINE q == [pc |-> "redeem", order |-> o, customer |-> c, month |-> month]
<1>1. call'[k] = q /\ order' = order /\ \A j \in Calls \ {k} : call'[j] = call[j]
  BY DEF RedeemCall, RewardInv, LedgerInv, TypeOK
<1>2. q.pc = "redeem" /\ q.order = o
  OBVIOUS
<1>3. order[o].state = "ABSENT" /\ \A j \in Calls : call[j].order # o
  BY DEF RedeemCall
<1> HIDE DEF q
<1> QED
  BY <1>1, <1>2, <1>3 DEF RewardInv, OneCall, Owns, OrdersCoherent

\* So do calls that have read an order and are to deliver it.
LEMMA ReadKeeps ==
    ASSUME RewardInv, NEW k \in Calls, NEW o \in Orders, DeliverRead(k, o)
    PROVE  OneCall' /\ OrdersCoherent'
<1> DEFINE q == [pc |-> "deliver", order |-> o, customer |-> order[o].customer, month |-> 0]
<1>1. /\ call'[k] = q /\ order' = order
      /\ \A j \in Calls \ {k} : call'[j] = call[j]
  BY DEF DeliverRead, RewardInv, LedgerInv, TypeOK
<1>2. q.pc = "deliver" /\ q.order = o
  OBVIOUS
<1> HIDE DEF q
<1> QED
  BY <1>1, <1>2 DEF RewardInv, OneCall, Owns, OrdersCoherent

\* The end of a call that changed at most the order that was its own.
LEMMA EndKeeps ==
    ASSUME RewardInv, NEW k \in Calls, call' = [call EXCEPT ![k] = Idle],
           \A o \in Orders : order'[o] = order[o] \/ (o = call[k].order /\ Owns(k)),
           call[k].order \in Orders => Coherent(order'[call[k].order])
    PROVE  OneCall' /\ OrdersCoherent'
<1>1. Idle.pc = "idle" /\ Idle.order = NoOrder
  BY DEF Idle
<1>2. call'[k] = Idle /\ \A j \in Calls \ {k} : call'[j] = call[j]
  BY DEF RewardInv, LedgerInv, TypeOK
<1>3. ASSUME NEW j \in Calls \ {k}, Owns(j)
      PROVE  order'[call[j].order] = order[call[j].order]
  <2>1. call[j].order \in Orders
    BY <1>3 DEF RewardInv, LedgerInv, Owns
  <2>2. Owns(k) => call[j].order # call[k].order
    BY <1>3 DEF RewardInv, OneCall
  <2> QED
    BY <2>1, <2>2
<1>5. OneCall'
  BY <1>1, <1>2, <1>3 DEF RewardInv, OneCall, Owns
<1>6. OrdersCoherent'
  BY DEF RewardInv, OrdersCoherent
<1> QED
  BY <1>5, <1>6

\* Deliveries of an open order: it is no call's own, for those that own one found it
\* absent or left it delivered.
LEMMA DeliverKeeps ==
    ASSUME RewardInv, NEW k \in Calls, Deliver(k)
    PROVE  OneCall' /\ OrdersCoherent'
<1> DEFINE o == call[k].order
           q == [call[k] EXCEPT !.pc = "delivered"]
           new == [order[o] EXCEPT !.state = "DELIVERED"]
<1>1. /\ o \in Orders /\ call[k] \in Call /\ call'[k] = q
      /\ \A j \in Calls \ {k} : call'[j] = call[j]
  BY DEF Deliver, RewardInv, LedgerInv, TypeOK
<1>2. q.pc = "delivered" /\ q.order = o
  BY <1>1 DEF Call
<1>3. /\ order[o].state = "OPEN" /\ order[o] \in Delivery
      /\ order'[o] = new /\ \A p \in Orders \ {o} : order'[p] = order[p]
  BY <1>1 DEF Deliver, RewardInv, LedgerInv, TypeOK
<1>4. /\ new.state = "DELIVERED" /\ new.creditedTo = order[o].creditedTo
      /\ new.notes = order[o].notes /\ new.redeemedBy = order[o].redeemedBy
  BY <1>3 DEF Delivery
<1>5. Coherent(order[o]) /\ order[o].creditedTo = NoCustomer
  BY <1>1, <1>3 DEF RewardInv, OrdersCoherent, Coherent
<1>6. \A j \in Calls : Owns(j) => call[j].order # o
  BY <1>3 DEF RewardInv, OneCall, Owns
<1> HIDE DEF q, new, o
<1>7. OneCall'
  <2>1. ASSUME NEW j \in Calls \ {k}, Owns(j)
        PROVE  order'[call[j].order] = order[call[j].order]
    BY <1>3, <1>6, <2>1 DEF RewardInv, LedgerInv, Owns
  <2> DEFINE Kept(j) ==
        /\ call'[j].pc \in {"idle", "snapshot"} => call'[j].order = NoOrder
        /\ call'[j].pc = "redeem" => order'[call'[j].order].state = "ABSENT"
        /\ call'[j].pc \in {"delivered", "credit"} =>
              /\ order'[call'[j].order].state = "DELIVERED"
              /\ order'[call'[j].order].creditedTo = NoCustomer
        /\ call'[j].pc = "credit" => order'[call'[j].order].app = TRUE
  <2>3. ASSUME NEW j \in Calls \ {k} PROVE Kept(j)
    BY <1>1, <2>1 DEF RewardInv, OneCall, Owns
  <2>4. Kept(k)
    BY <1>1, <1>2, <1>3, <1>4, <1>5
  <2>5. \A i, j \in Calls :
           Owns(j)' /\ Owns(i)' /\ call'[j].order = call'[i].order => j = i
    <3>1. \A j \in Calls \ {k} : Owns(j)' => Owns(j) /\ call'[j].order # o
      BY <1>1, <1>6 DEF Owns
    <3> QED
      BY <1>1, <1>2, <3>1 DEF RewardInv, OneCall
  <2> QED
    BY <2>3, <2>4, <2>5 DEF OneCall
<1>8. OrdersCoherent'
  <2>1. Coherent(new)
    BY <1>4, <1>5 DEF Coherent
  <2> QED
    BY <1>3, <2>1 DEF RewardInv, OrdersCoherent
<1> QED
  BY <1>7, <1>8

\* An edit leaves all that is counted, of an order that may be another call's own.
LEMMA EditKeeps ==
    ASSUME RewardInv, NEW e \in Orders, NEW c \in Customers, updateOrderDetails(e, c)
    PROVE  /\ OneCall' /\ OrdersCoherent'
           /\ \A o \in Orders :
                 /\ order'[o].state = order[o].state
                 /\ order'[o].app = order[o].app
                 /\ order'[o].creditedTo = order[o].creditedTo
                 /\ order'[o].creditMonth = order[o].creditMonth
                 /\ order'[o].redeemedBy = order[o].redeemedBy
<1> DEFINE new == [order[e] EXCEPT !.customer = c, !.notes = "typed"]
<1>1. order[e] \in Delivery /\ order[e].state # "ABSENT" /\ Coherent(order[e])
  BY DEF updateOrderDetails, RewardInv, LedgerInv, TypeOK, OrdersCoherent
<1>2. /\ order'[e] = new /\ \A o \in Orders \ {e} : order'[o] = order[o]
      /\ call' = call
  BY DEF updateOrderDetails, RewardInv, LedgerInv, TypeOK
<1>3. /\ new.state = order[e].state /\ new.app = order[e].app
      /\ new.creditedTo = order[e].creditedTo /\ new.creditMonth = order[e].creditMonth
      /\ new.redeemedBy = order[e].redeemedBy /\ new.notes = "typed"
  BY <1>1 DEF Delivery
<1> HIDE DEF new
<1>6. \A o \in Orders :
         /\ order'[o].state = order[o].state /\ order'[o].app = order[o].app
         /\ order'[o].creditedTo = order[o].creditedTo
         /\ order'[o].creditMonth = order[o].creditMonth
         /\ order'[o].redeemedBy = order[o].redeemedBy
  BY <1>2, <1>3
<1>7. \A j \in Calls : call[j].pc \notin {"idle", "snapshot"} => call[j].order \in Orders
  BY DEF RewardInv, LedgerInv
<1>8. OneCall'
  BY <1>2, <1>6, <1>7 DEF RewardInv, OneCall, Owns
<1>9. OrdersCoherent'
  <2>1. Coherent(new)
    BY <1>1, <1>3 DEF Coherent
  <2> QED
    BY <1>2, <2>1 DEF RewardInv, OrdersCoherent
<1> QED
  BY <1>6, <1>8, <1>9

\* An eligible delivery waits for the customer's row.
LEMMA RecordKeeps ==
    ASSUME RewardInv, NEW k \in Calls, RecordCall(k)
    PROVE  OneCall' /\ OrdersCoherent'
<1>1. order' = order /\ call[k].pc = "delivered" /\ call[k] \in Call
      /\ call[k].order \in Orders
  BY DEF RecordCall, RewardInv, LedgerInv, TypeOK
<1>2. CASE /\ order[call[k].order].app = TRUE
           /\ call' = [call EXCEPT ![k].pc = "credit", ![k].month = month]
  <2> DEFINE q == [call[k] EXCEPT !.pc = "credit", !.month = month]
  <2>1. call'[k] = q /\ \A j \in Calls \ {k} : call'[j] = call[j]
    BY <1>2 DEF RewardInv, LedgerInv, TypeOK
  <2>2. q.pc = "credit" /\ q.order = call[k].order
    BY <1>1 DEF Call
  <2> HIDE DEF q
  <2>3. order[call[k].order].state = "DELIVERED" /\ order[call[k].order].creditedTo = NoCustomer
    BY <1>1 DEF RewardInv, OneCall
  <2>4. \A j \in Calls : call'[j].order = call[j].order
    BY <2>1, <2>2
  <2>5. \A i, j \in Calls : Owns(j)' /\ Owns(i)' /\ call'[j].order = call'[i].order => j = i
    <3>1. \A j \in Calls : Owns(j)' => Owns(j)
      BY <1>1, <2>1, <2>2 DEF Owns
    <3> QED
      BY <2>4, <3>1 DEF RewardInv, OneCall
  <2> DEFINE Kept(j) ==
        /\ call'[j].pc \in {"idle", "snapshot"} => call'[j].order = NoOrder
        /\ call'[j].pc = "redeem" => order'[call'[j].order].state = "ABSENT"
        /\ call'[j].pc \in {"delivered", "credit"} =>
              /\ order'[call'[j].order].state = "DELIVERED"
              /\ order'[call'[j].order].creditedTo = NoCustomer
        /\ call'[j].pc = "credit" => order'[call'[j].order].app = TRUE
  <2>6. ASSUME NEW j \in Calls \ {k} PROVE Kept(j)
    BY <1>1, <2>1 DEF RewardInv, OneCall
  <2>7. Kept(k)
    BY <1>1, <1>2, <2>1, <2>2, <2>3
  <2>8. OneCall'
    BY <2>5, <2>6, <2>7 DEF OneCall
  <2> QED
    BY <1>1, <2>8 DEF RewardInv, OrdersCoherent
<1>3. CASE call' = [call EXCEPT ![k] = Idle]
  BY <1>1, <1>3, EndKeeps DEF RewardInv, OrdersCoherent
<1>4. order[call[k].order].app \in BOOLEAN
  BY <1>1 DEF RewardInv, LedgerInv, TypeOK, Delivery
<1> QED
  BY <1>2, <1>3, <1>4, Zenon DEF RecordCall

\* The invariant holds at first.
LEMMA RewardInit == Init => RewardInv
<1> SUFFICES ASSUME Init PROVE RewardInv
  OBVIOUS
<1>1. LedgerInv
  BY LedgerInit
<1>2. /\ \A o \in Orders : order[o] = Absent
      /\ \A k \in Calls : call[k] = Idle
      /\ \A c \in Customers : \E m \in {0, 1} : customer[c] = NewAccount(m)
  BY DEF Init
<1>3. OneCall /\ OrdersCoherent
  <2>1. /\ Idle.pc = "idle" /\ Idle.order = NoOrder
        /\ Absent.creditedTo = NoCustomer /\ Absent.redeemedBy = NoCustomer
        /\ Absent.notes = "plain"
    BY DEF Idle, Absent
  <2> QED
    BY <1>2, <2>1 DEF OneCall, Owns, OrdersCoherent, Coherent
<1>4. ASSUME NEW c \in Customers PROVE Accounted(c)
  <2>1. c # NoCustomer
    BY LoyaltyAssumption
  <2>2. /\ Credits(c) = {} /\ Redeemed(c) = {}
        /\ MonthCredits(c, customer[c].progressMonth) = {}
    BY <1>2, <2>1 DEF Credits, Redeemed, MonthCredits, Absent
  <2>3. customer[c].earned = 0 /\ customer[c].completed = 0 /\ customer[c].used = 0
    BY <1>2 DEF NewAccount
  <2> QED
    BY <2>2, <2>3, FS_EmptySet, LoyaltyAssumption DEF Accounted
<1> QED
  BY <1>1, <1>3, <1>4 DEF RewardInv

\* Every step keeps it.
LEMMA RewardNext == RewardInv /\ [Next]_vars => RewardInv'
<1> SUFFICES ASSUME RewardInv, [Next]_vars PROVE RewardInv'
  OBVIOUS
<1> DEFINE Goal == OneCall' /\ OrdersCoherent' /\ \A c \in Customers : Accounted(c)'
<1>0. LedgerInv' /\ TypeOK
  BY LedgerNext DEF RewardInv, LedgerInv
<1>1. ASSUME UNCHANGED <<customer, order>>, OneCall' /\ OrdersCoherent' PROVE Goal
  <2>1. ASSUME NEW c \in Customers PROVE Accounted(c)'
    BY <1>0, <1>1, Untouched DEF RewardInv
  <2> QED
    BY <1>1, <2>1
<1>2. ASSUME NEW k \in Calls, NEW o \in Orders, NEW c \in Customers, RedeemCall(k, o, c)
      PROVE  Goal
  <2>1. UNCHANGED <<customer, order>>
    BY <1>2 DEF RedeemCall
  <2> QED
    BY <1>1, <1>2, <2>1, RedeemCallKeeps
<1>3. ASSUME NEW k \in Calls, RedeemCommit(k) PROVE Goal
  <2> DEFINE q == call[k]
             free == Redeems(resetLoyaltyMonthIfNeeded(customer[q.customer], q.month))
             made == AppOrder(q.customer, free)
  <2>1. /\ order' = [order EXCEPT ![q.order] = made]
        /\ call' = [call EXCEPT ![k] = Idle]
        /\ Owns(k) /\ q.customer \in Customers
    BY <1>3 DEF RedeemCommit, Owns, RewardInv, LedgerInv
  <2>2. /\ made.state = "OPEN" /\ made.creditedTo = NoCustomer
        /\ made.redeemedBy = IF free THEN q.customer ELSE NoCustomer
        /\ made.notes = IF free THEN "free" ELSE "plain"
    BY <2>1, AppOrderRow
  <2> HIDE DEF made, free
  <2>3. Coherent(made)
    BY <2>1, <2>2, LoyaltyAssumption DEF Coherent
  <2>4. OneCall' /\ OrdersCoherent'
    <3>1. \A o \in Orders : o # q.order => order'[o] = order[o]
      BY <1>0, <2>1 DEF TypeOK
    <3>2. q.order \in Orders => order'[q.order] = made
      BY <1>0, <2>1 DEF TypeOK
    <3> QED
      BY <2>1, <2>2, <2>3, <3>1, <3>2, EndKeeps
  <2> QED
    BY <1>3, <2>4, RedeemAccounts
<1>4. ASSUME NEW k \in Calls, Deliver(k) PROVE Goal
  <2> DEFINE o == call[k].order
             new == [order[o] EXCEPT !.state = "DELIVERED"]
  <2>1. customer' = customer /\ o \in Orders
    BY <1>4 DEF Deliver, RewardInv, LedgerInv
  <2>2. /\ order[o] \in Delivery /\ order'[o] = new
        /\ \A p \in Orders \ {o} : order'[p] = order[p]
    BY <1>0, <1>4, <2>1 DEF Deliver, TypeOK
  <2> HIDE DEF o
  <2>3. /\ order'[o].creditedTo = order[o].creditedTo /\ order'[o].app = order[o].app
        /\ order'[o].creditMonth = order[o].creditMonth
        /\ order'[o].redeemedBy = order[o].redeemedBy
        /\ order'[o].state = "DELIVERED"
    BY <2>2 DEF Delivery
  <2>4. ASSUME NEW c \in Customers PROVE Accounted(c)'
    BY <1>0, <2>1, <2>2, <2>3, Untouched DEF RewardInv
  <2> QED
    BY <1>4, <2>4, DeliverKeeps
<1>5. ASSUME NEW k \in Calls, RecordCall(k) PROVE Goal
  <2>1. UNCHANGED <<customer, order>>
    BY <1>5 DEF RecordCall
  <2> QED
    BY <1>1, <1>5, <2>1, RecordKeeps
<1>6. ASSUME NEW k \in Calls, CreditCommit(k) PROVE Goal
  <2> DEFINE o == call[k].order
             new == [order[o] EXCEPT !.creditedTo = call[k].customer,
                                     !.creditMonth = call[k].month]
  <2>1. /\ o \in Orders /\ order[o] \in Delivery
        /\ order[o].state = "DELIVERED" /\ order[o].app = TRUE
        /\ Coherent(order[o]) /\ Owns(k)
    BY <1>6 DEF CreditCommit, RewardInv, LedgerInv, TypeOK, OneCall, OrdersCoherent, Owns
  <2>2. /\ order' = [order EXCEPT ![o] = new]
        /\ call' = [call EXCEPT ![k] = Idle]
    BY <1>0, <1>6, <2>1 DEF CreditCommit, TypeOK
  <2>3. /\ new.state = "DELIVERED" /\ new.app = TRUE
        /\ new.notes = order[o].notes /\ new.redeemedBy = order[o].redeemedBy
    BY <2>1 DEF Delivery
  <2> HIDE DEF new
  <2>5. Coherent(new)
    BY <2>1, <2>3 DEF Coherent
  <2>4. OneCall' /\ OrdersCoherent'
    <3>1. order'[o] = new /\ \A p \in Orders : p # o => order'[p] = order[p]
      BY <1>0, <2>1, <2>2 DEF TypeOK
    <3> QED
      BY <2>1, <2>2, <2>3, <2>5, <3>1, EndKeeps
  <2> QED
    BY <1>6, <2>4, CreditAccounts
<1>7. ASSUME NEW k \in Calls, NEW c \in Customers, SnapshotCall(k, c) PROVE Goal
  <2> DEFINE q == [Idle EXCEPT !.pc = "snapshot", !.customer = c, !.month = month]
  <2>1. call'[k] = q /\ UNCHANGED <<customer, order>> /\ \A j \in Calls \ {k} : call'[j] = call[j]
    BY <1>0, <1>7 DEF SnapshotCall, TypeOK
  <2>2. q.pc = "snapshot" /\ q.order = NoOrder
    BY DEF Idle
  <2> HIDE DEF q
  <2>3. OneCall' /\ OrdersCoherent'
    BY <2>1, <2>2 DEF RewardInv, OneCall, Owns, OrdersCoherent
  <2> QED
    BY <1>1, <2>1, <2>3
<1>8. ASSUME NEW k \in Calls, SnapshotCommit(k) PROVE Goal
  <2>1. order' = order /\ call' = [call EXCEPT ![k] = Idle]
    BY <1>8 DEF SnapshotCommit
  <2>2. OneCall' /\ OrdersCoherent'
    BY <2>1, EndKeeps DEF RewardInv, OrdersCoherent
  <2> QED
    BY <1>8, <2>2, SnapshotAccounts
<1>9. ASSUME NEW k \in Calls, Fail(k) PROVE Goal
  <2>1. UNCHANGED <<customer, order>> /\ call' = [call EXCEPT ![k] = Idle]
    BY <1>9 DEF Fail
  <2>2. OneCall' /\ OrdersCoherent'
    BY <2>1, EndKeeps DEF RewardInv, OrdersCoherent
  <2> QED
    BY <1>1, <2>1, <2>2
<1>10. ASSUME NEW o \in Orders, NEW c \in Customers, CreateIneligibleOrder(o, c) PROVE Goal
  <2> DEFINE made == [Absent EXCEPT !.state = "OPEN", !.customer = c]
  <2>1. /\ order[o] = Absent /\ order'[o] = made /\ UNCHANGED <<customer, call>>
        /\ \A p \in Orders \ {o} : order'[p] = order[p]
        /\ \A j \in Calls : call[j].order # o
    BY <1>0, <1>10 DEF CreateIneligibleOrder, TypeOK, RewardInv, OrdersCoherent, Coherent
  <2>2. /\ made.state = "OPEN" /\ made.creditedTo = NoCustomer
        /\ made.redeemedBy = NoCustomer /\ made.notes = "plain"
        /\ made.app = FALSE /\ made.creditMonth = 0
        /\ Absent.creditedTo = NoCustomer /\ Absent.redeemedBy = NoCustomer
        /\ Absent.app = FALSE /\ Absent.creditMonth = 0 /\ Absent.state = "ABSENT"
    BY DEF Absent
  <2> HIDE DEF made
  <2>3. OneCall'
    <3>1. ASSUME NEW j \in Calls, call[j].pc \notin {"idle", "snapshot"}
          PROVE  order'[call[j].order] = order[call[j].order]
      BY <2>1, <3>1 DEF RewardInv, LedgerInv
    <3> QED
      BY <2>1, <3>1 DEF RewardInv, OneCall, Owns
  <2>4. OrdersCoherent'
    BY <2>1, <2>2 DEF RewardInv, OrdersCoherent, Coherent
  <2>5. ASSUME NEW d \in Customers PROVE Accounted(d)'
    BY <1>0, <2>1, <2>2, Untouched DEF RewardInv
  <2> QED
    BY <2>3, <2>4, <2>5
<1>11. ASSUME NextMonth \/ UNCHANGED vars PROVE Goal
  <2>1. UNCHANGED <<customer, order, call>>
    BY <1>11 DEF NextMonth, vars
  <2>2. OneCall' /\ OrdersCoherent'
    BY <2>1 DEF RewardInv, OneCall, Owns, OrdersCoherent
  <2> QED
    BY <1>1, <2>1, <2>2
<1>13. ASSUME NEW k \in Calls, NEW o \in Orders, DeliverRead(k, o) PROVE Goal
  <2>1. UNCHANGED <<customer, order>>
    BY <1>13 DEF DeliverRead
  <2> QED
    BY <1>1, <1>13, <2>1, ReadKeeps
<1>14. ASSUME NEW o \in Orders, NEW c \in Customers, updateOrderDetails(o, c) PROVE Goal
  <2>1. customer' = customer
    BY <1>14 DEF updateOrderDetails
  <2>2. ASSUME NEW d \in Customers PROVE Accounted(d)'
    BY <1>0, <1>14, <2>1, EditKeeps, Untouched DEF RewardInv
  <2> QED
    BY <1>14, <2>2, EditKeeps
<1>15. Goal
  <2> HIDE DEF Goal
  <2> QED
    BY <1>2, <1>3, <1>4, <1>5, <1>6, <1>7, <1>8, <1>9, <1>10, <1>11, <1>13, <1>14
    DEF Next, CallStep
<1> QED
  BY <1>0, <1>15 DEF RewardInv

\* Each reward earned is backed by PerReward distinct delivered app orders credited to
\* the customer, progress by deliveries of its month, and each one used by an order that
\* used it up, however orders fail, race for the last reward, are edited or wait over the
\* end of a month; and the notes of an order nobody edited tell the driver which.
THEOREM RewardsAreAccounted == Spec => []RewardsAccounted
<1>1. RewardInv => RewardsAccounted
  BY AccountedMeans DEF RewardInv
<1> QED
  BY <1>1, RewardInit, RewardNext, PTL DEF Spec

-----------------------------------------------------------------------------
(***************************************************************************)
(* DuplicateGuard                                                          *)
(***************************************************************************)

\* Submission s has inserted the row.
LetIn(s) == sub[s].state \in {"running", "ok", "failed", "gone"}

\* Submission u has deleted a row that may have been another's.
Outlived(u) == Guard!Released(u) /\ sub[u].until <= sub[u].end

\* The later of the two inserted the row when the earlier one's was gone.
Apart(s, t) ==
    \/ sub[s].until <= sub[t].start
    \/ sub[t].until <= sub[s].start
    \/ Guard!Released(s) /\ sub[s].end <= sub[t].start
    \/ Guard!Released(t) /\ sub[t].end <= sub[s].start
    \/ \E u \in Submissions \ {s, t} :
          Outlived(u) /\ (sub[u].end <= sub[s].start \/ sub[u].end <= sub[t].start)

\* Until somebody outlives the row, a submission that was let in holds it for its
\* window, or until it releases it; so the next one is let in after that.
GuardInv ==
    /\ Guard!GuardTypeOK
    /\ \A s \in Submissions :
          /\ LetIn(s) => sub[s].start <= now
          /\ sub[s].made => LetIn(s)
          /\ sub[s].end # Guard!Never => sub[s].state = "failed" /\ sub[s].end <= now
    /\ \A s, t \in Submissions : LetIn(s) /\ LetIn(t) /\ s # t => Apart(s, t)
    /\ \/ \E u \in Submissions : Outlived(u)
       \/ \A s \in Submissions : LetIn(s) /\ sub[s].end = Guard!Never /\ now < sub[s].until =>
             expires = sub[s].until

LEMMA GuardBegins == ASSUME Guard!GuardAssumption PROVE Guard!Init => GuardInv
<1> SUFFICES ASSUME Guard!Init PROVE GuardInv
  OBVIOUS
<1>1. \A s \in Submissions : ~LetIn(s) /\ sub[s].end = Guard!Never /\ sub[s].made = FALSE
  BY DEF Guard!Init, LetIn
<1>2. Guard!GuardTypeOK
  BY DEF Guard!GuardAssumption, Guard!Init, Guard!GuardTypeOK, Guard!Sub, Guard!Free, Guard!Never
<1> QED
  BY <1>1, <1>2 DEF GuardInv

\* A step of s that inserts no row and answers nobody's error a second time leaves what
\* is said of two submissions.
LEMMA StaysApart ==
    ASSUME Guard!GuardAssumption, GuardInv,
           \A x \in Submissions :
              /\ LetIn(x)' => LetIn(x)
              /\ LetIn(x) => sub'[x].start = sub[x].start /\ sub'[x].until = sub[x].until
              /\ sub[x].end # Guard!Never =>
                    sub'[x].end = sub[x].end /\ sub'[x].state = sub[x].state
    PROVE  /\ \A s, t \in Submissions : LetIn(s)' /\ LetIn(t)' /\ s # t => Apart(s, t)'
           /\ \A u \in Submissions : Outlived(u) => Outlived(u)'
<1>1. ASSUME NEW u \in Submissions, Guard!Released(u)
      PROVE  /\ Guard!Released(u)' /\ sub'[u].end = sub[u].end /\ sub'[u].until = sub[u].until
             /\ sub'[u].start = sub[u].start
  BY <1>1 DEF Guard!Released, LetIn
<1>2. \A u \in Submissions : Outlived(u) => Outlived(u)' /\ sub'[u].end = sub[u].end
  BY <1>1 DEF Outlived
<1>3. ASSUME NEW s \in Submissions, NEW t \in Submissions, LetIn(s)', LetIn(t)', s # t
      PROVE  Apart(s, t)'
  <2>1. Apart(s, t) /\ LetIn(s) /\ LetIn(t)
    BY <1>3 DEF GuardInv
  <2> QED
    BY <1>1, <1>2, <2>1 DEF Apart
<1> QED
  BY <1>2, <1>3

LEMMA GuardGoesOn ==
    ASSUME Guard!GuardAssumption, GuardInv, [Guard!Next]_Guard!vars
    PROVE  GuardInv'
<1> USE DEF Guard!GuardAssumption
<1> DEFINE Holding(x) == LetIn(x) /\ sub[x].end = Guard!Never /\ now < sub[x].until
           Calm == \A u \in Submissions : ~Outlived(u)
           Held == Calm => \A x \in Submissions : Holding(x) => expires = sub[x].until
<1>1. ASSUME NEW s \in Submissions,
             Guard!Arrive(s) \/ Guard!DeleteExpired(s) \/ (Guard!Reserve(s) /\ expires # Guard!Free)
      PROVE  GuardInv'
  <2>1. /\ now' = now /\ ~LetIn(s) /\ ~LetIn(s)' /\ sub' \in [Submissions -> Guard!Sub]
        /\ \A x \in Submissions \ {s} : sub'[x] = sub[x]
        /\ sub'[s].end = sub[s].end /\ sub'[s].made = sub[s].made
        /\ expires' \in {expires, Guard!Free} /\ (expires' # expires => expires <= now)
    BY <1>1 DEF Guard!Arrive, Guard!DeleteExpired, Guard!Reserve, GuardInv, Guard!GuardTypeOK,
                Guard!Sub, LetIn, Guard!Free, Guard!Never
  <2>2. sub[s].end = Guard!Never /\ sub[s].made = FALSE
    BY <2>1 DEF GuardInv, LetIn, Guard!GuardTypeOK, Guard!Sub
  <2>3. \A x \in Submissions :
           /\ LetIn(x)' => LetIn(x) /\ sub'[x] = sub[x]
           /\ LetIn(x) => sub'[x] = sub[x]
           /\ sub[x].end # Guard!Never => sub'[x] = sub[x]
    BY <2>1, <2>2 DEF LetIn
  <2>4. /\ \A x, t \in Submissions : LetIn(x)' /\ LetIn(t)' /\ x # t => Apart(x, t)'
        /\ \A u \in Submissions : Outlived(u) => Outlived(u)'
    BY <2>3, StaysApart
  <2>5. \A x \in Submissions : LetIn(x)' /\ sub'[x].end = Guard!Never /\ now' < sub'[x].until =>
           Holding(x) /\ sub'[x] = sub[x]
    BY <2>1, <2>3
  <2>6. Guard!GuardTypeOK'
    BY <2>1 DEF GuardInv, Guard!GuardTypeOK, Guard!Free
  <2>7. ASSUME Calm, NEW x \in Submissions, Holding(x) PROVE expires' = sub[x].until
    <3>1. expires = sub[x].until
      BY <2>7 DEF GuardInv
    <3> QED
      BY <2>1, <2>7, <3>1 DEF GuardInv, Guard!GuardTypeOK, Guard!Sub
  <2>8. \A x \in Submissions :
           /\ LetIn(x)' => sub'[x].start <= now'
           /\ sub'[x].made => LetIn(x)'
           /\ sub'[x].end # Guard!Never => sub'[x].state = "failed" /\ sub'[x].end <= now'
    BY <2>1, <2>2, <2>3 DEF GuardInv, LetIn
  <2> QED
    BY <2>3, <2>4, <2>5, <2>6, <2>7, <2>8 DEF GuardInv
<1>2. ASSUME NEW s \in Submissions, Guard!Reserve(s), expires = Guard!Free
      PROVE  GuardInv'
  <2>1. /\ now' = now /\ ~LetIn(s) /\ LetIn(s)' /\ sub' \in [Submissions -> Guard!Sub]
        /\ \A x \in Submissions \ {s} : sub'[x] = sub[x]
        /\ sub'[s].end = sub[s].end /\ sub'[s].made = sub[s].made /\ sub'[s].until = sub[s].until
        /\ sub'[s].start = now /\ expires' = sub[s].until
        /\ now \in Nat
    BY <1>2 DEF Guard!Reserve, GuardInv, Guard!GuardTypeOK, Guard!Sub, LetIn
  <2>2. sub[s].end = Guard!Never /\ sub[s].made = FALSE /\ ~Guard!Released(s) /\ ~Guard!Released(s)'
    BY <2>1 DEF GuardInv, LetIn, Guard!GuardTypeOK, Guard!Sub, Guard!Released
  <2>3. \A x \in Submissions \ {s} :
           /\ LetIn(x)' <=> LetIn(x)
           /\ Guard!Released(x)' <=> Guard!Released(x)
           /\ Outlived(x)' <=> Outlived(x)
    BY <2>1 DEF LetIn, Guard!Released, Outlived
  <2>4. ~Outlived(s) /\ ~Outlived(s)'
    BY <2>2 DEF Outlived
  <2>5. \A x \in Submissions : Outlived(x) => sub[x].end <= now
    BY DEF GuardInv, Outlived, Guard!Released
  <2>6. ASSUME NEW x \in Submissions \ {s}, LetIn(x)
        PROVE  \/ sub[x].until <= now
               \/ Guard!Released(x) /\ sub[x].end <= now
               \/ \E u \in Submissions \ {s, x} : Outlived(u) /\ sub[u].end <= now
    <3>1. CASE \E u \in Submissions : Outlived(u)
      BY <2>4, <2>5, <3>1 DEF Outlived
    <3>2. CASE ~\E u \in Submissions : Outlived(u)
      <4>1. expires # sub[x].until
        BY <1>2 DEF GuardInv, Guard!GuardTypeOK, Guard!Sub, Guard!Free
      <4>2. sub[x].end # Guard!Never \/ ~(now < sub[x].until)
        BY <2>6, <3>2, <4>1 DEF GuardInv
      <4> QED
        BY <2>1, <4>2 DEF GuardInv, Guard!Released, Guard!GuardTypeOK, Guard!Sub
    <3> QED
      BY <3>1, <3>2
  <2>7. ASSUME NEW x \in Submissions \ {s}, LetIn(x)
        PROVE  Apart(x, s)' /\ Apart(s, x)'
    <3>1. \/ sub'[x].until <= sub'[s].start
          \/ Guard!Released(x)' /\ sub'[x].end <= sub'[s].start
          \/ \E u \in Submissions \ {s, x} : Outlived(u)' /\ sub'[u].end <= sub'[s].start
      BY <2>1, <2>3, <2>6, <2>7
    <3> QED
      BY <3>1 DEF Apart
  <2>8. ASSUME NEW x \in Submissions \ {s}, NEW y \in Submissions \ {s}, LetIn(x), LetIn(y), x # y
        PROVE  Apart(x, y)'
    <3>1. Apart(x, y)
      BY <2>8 DEF GuardInv
    <3> QED
      BY <2>1, <2>3, <2>4, <2>8, <3>1 DEF Apart
  <2>9. ASSUME Calm, NEW x \in Submissions \ {s}, Holding(x) PROVE FALSE
    <3>1. expires = sub[x].until
      BY <2>9 DEF GuardInv
    <3> QED
      BY <1>2, <3>1 DEF GuardInv, Guard!GuardTypeOK, Guard!Sub, Guard!Free
  <2>10. \A x \in Submissions :
           /\ LetIn(x)' => sub'[x].start <= now'
           /\ sub'[x].made => LetIn(x)'
           /\ sub'[x].end # Guard!Never => sub'[x].state = "failed" /\ sub'[x].end <= now'
    BY <2>1, <2>2, <2>3 DEF GuardInv, LetIn
  <2>11. Guard!GuardTypeOK'
    BY <2>1 DEF GuardInv, Guard!GuardTypeOK, Guard!Sub
  <2>12. \A x, y \in Submissions : LetIn(x)' /\ LetIn(y)' /\ x # y => Apart(x, y)'
    BY <2>3, <2>7, <2>8
  <2>13. \/ \E u \in Submissions : Outlived(u)'
         \/ \A x \in Submissions :
               LetIn(x)' /\ sub'[x].end = Guard!Never /\ now' < sub'[x].until =>
                  expires' = sub'[x].until
    BY <2>1, <2>3, <2>4, <2>9
  <2> QED
    BY <2>10, <2>11, <2>12, <2>13 DEF GuardInv
<1>3. ASSUME NEW s \in Submissions, Guard!Commit(s) \/ Guard!Answer(s)
      PROVE  GuardInv'
  <2>1. /\ now' = now /\ expires' = expires /\ LetIn(s) /\ LetIn(s)'
        /\ sub' \in [Submissions -> Guard!Sub]
        /\ \A x \in Submissions \ {s} : sub'[x] = sub[x]
        /\ sub'[s].end = sub[s].end /\ sub'[s].start = sub[s].start
        /\ sub'[s].until = sub[s].until /\ sub[s].state # "failed"
    <3>1. CASE Guard!Commit(s)
      BY <3>1 DEF Guard!Commit, GuardInv, Guard!GuardTypeOK, Guard!Sub, LetIn
    <3>2. CASE Guard!Answer(s)
      <4>1. PICK outcome \in {"ok", "failed", "gone"} : sub' = [sub EXCEPT ![s].state = outcome]
        BY <3>2 DEF Guard!Answer
      <4> QED
        BY <3>2, <4>1 DEF Guard!Answer, GuardInv, Guard!GuardTypeOK, Guard!Sub, LetIn
    <3> QED
      BY <1>3, <3>1, <3>2
  <2>2. sub[s].end = Guard!Never
    BY <2>1 DEF GuardInv
  <2>3. \A x \in Submissions :
           /\ LetIn(x)' <=> LetIn(x)
           /\ sub'[x].start = sub[x].start /\ sub'[x].until = sub[x].until
           /\ sub'[x].end = sub[x].end
           /\ sub[x].end # Guard!Never => sub'[x].state = sub[x].state
           /\ sub'[x].made => LetIn(x)'
    BY <2>1, <2>2 DEF LetIn, GuardInv
  <2>4. /\ \A x, t \in Submissions : LetIn(x)' /\ LetIn(t)' /\ x # t => Apart(x, t)'
        /\ \A u \in Submissions : Outlived(u) => Outlived(u)'
    BY <2>3, StaysApart
  <2>5. Guard!GuardTypeOK'
    BY <2>1 DEF GuardInv, Guard!GuardTypeOK
  <2> QED
    BY <2>1, <2>3, <2>4, <2>5 DEF GuardInv
<1>4. ASSUME NEW s \in Submissions, Guard!Release(s)
      PROVE  GuardInv'
  <2>1. /\ now' = now /\ expires' = Guard!Free /\ LetIn(s) /\ LetIn(s)'
        /\ sub' \in [Submissions -> Guard!Sub]
        /\ \A x \in Submissions \ {s} : sub'[x] = sub[x]
        /\ sub[s].end = Guard!Never /\ sub'[s].end = now /\ sub'[s].start = sub[s].start
        /\ sub'[s].until = sub[s].until /\ sub'[s].state = "failed" /\ sub[s].state = "failed"
        /\ sub'[s].made = sub[s].made /\ now \in Nat
    BY <1>4 DEF Guard!Release, GuardInv, Guard!GuardTypeOK, Guard!Sub, LetIn, Guard!Never
  <2>2. \A x \in Submissions :
           /\ LetIn(x)' <=> LetIn(x)
           /\ sub'[x].start = sub[x].start /\ sub'[x].until = sub[x].until
           /\ sub'[x].made = sub[x].made
           /\ sub[x].end # Guard!Never =>
                 sub'[x].end = sub[x].end /\ sub'[x].state = sub[x].state
           /\ sub'[x].end # Guard!Never => sub'[x].state = "failed" /\ sub'[x].end <= now'
    BY <2>1 DEF LetIn, GuardInv
  <2>3. /\ \A x, t \in Submissions : LetIn(x)' /\ LetIn(t)' /\ x # t => Apart(x, t)'
        /\ \A u \in Submissions : Outlived(u) => Outlived(u)'
    BY <2>2, StaysApart
  <2>4. Guard!GuardTypeOK'
    BY <2>1 DEF GuardInv, Guard!GuardTypeOK
  <2>5. CASE sub[s].until <= now
    <3>1. Outlived(s)'
      BY <2>1, <2>5 DEF Outlived, Guard!Released, Guard!Never
    <3> QED
      BY <2>1, <2>2, <2>3, <2>4, <3>1 DEF GuardInv
  <2>6. CASE ~(sub[s].until <= now)
    <3>1. ASSUME Calm, NEW x \in Submissions \ {s}, LetIn(x), sub[x].end = Guard!Never,
                 now < sub[x].until
          PROVE  FALSE
      <4>1. Apart(s, x) /\ sub[s].start <= now /\ sub[x].start <= now
        BY <2>1, <3>1 DEF GuardInv
      <4>2. sub[s].until \in Nat /\ sub[x].until \in Nat /\ sub[s].start \in Nat
            /\ sub[x].start \in Nat
        BY DEF GuardInv, Guard!GuardTypeOK, Guard!Sub
      <4> QED
        BY <2>1, <2>6, <3>1, <4>1, <4>2 DEF Apart, Guard!Released
    <3>2. sub'[s].end # Guard!Never
      BY <2>1 DEF Guard!Never
    <3>3. \/ \E u \in Submissions : Outlived(u)'
          \/ \A x \in Submissions :
                LetIn(x)' /\ sub'[x].end = Guard!Never /\ now' < sub'[x].until =>
                   expires' = sub'[x].until
      BY <2>1, <2>2, <2>3, <3>1, <3>2
    <3> QED
      BY <2>1, <2>2, <2>3, <2>4, <3>3 DEF GuardInv
  <2> QED
    BY <2>5, <2>6
<1>5. CASE Guard!Tick
  <2>1. /\ now' = now + 1 /\ now \in Nat /\ expires' = expires /\ sub' = sub
        /\ Guard!GuardTypeOK'
    BY <1>5 DEF Guard!Tick, GuardInv, Guard!GuardTypeOK
  <2>2. /\ \A x \in Submissions : (LetIn(x)' <=> LetIn(x)) /\ (Outlived(x)' <=> Outlived(x))
        /\ \A x, y \in Submissions : Apart(x, y)' <=> Apart(x, y)
    BY <2>1 DEF LetIn, Outlived, Apart, Guard!Released
  <2>3. \A x \in Submissions : /\ sub[x].until \in Nat /\ sub[x].start \in Nat
                               /\ sub[x].end \in Int
    BY DEF GuardInv, Guard!GuardTypeOK, Guard!Sub, Guard!Never
  <2> QED
    BY <2>1, <2>2, <2>3 DEF GuardInv
<1>6. CASE UNCHANGED Guard!vars
  <2>1. now' = now /\ expires' = expires /\ sub' = sub
    BY <1>6 DEF Guard!vars
  <2> QED
    BY <2>1 DEF GuardInv, Guard!GuardTypeOK, LetIn, Outlived, Apart, Guard!Released
<1> QED
  BY <1>1, <1>2, <1>3, <1>4, <1>5, <1>6 DEF Guard!Next

LEMMA OneOrder == ASSUME Guard!GuardAssumption, GuardInv PROVE Guard!OneOrderPerWindow
<1> SUFFICES ASSUME NEW s \in Submissions, NEW t \in Submissions, s # t,
                    sub[s].made, sub[t].made,
                    sub[s].start < sub[t].until, sub[t].start < sub[s].until
             PROVE  \/ Guard!Released(s) /\ sub[s].end <= sub[t].start
                    \/ Guard!Released(t) /\ sub[t].end <= sub[s].start
                    \/ \E u \in Submissions \ {s, t} :
                          /\ Guard!Released(u) /\ sub[u].until <= sub[u].end
                          /\ sub[u].end <= sub[s].start \/ sub[u].end <= sub[t].start
  BY DEF Guard!OneOrderPerWindow
<1>1. Apart(s, t)
  BY DEF GuardInv
<1>2. /\ sub[s].until \in Int /\ sub[t].until \in Int
      /\ sub[s].start \in Int /\ sub[t].start \in Int
  BY DEF GuardInv, Guard!GuardTypeOK, Guard!Sub, Guard!GuardAssumption
<1> QED
  BY <1>1, <1>2 DEF Apart, Outlived

-----------------------------------------------------------------------------
(***************************************************************************)
(* SyntheticPolicy                                                         *)
(***************************************************************************)

\* Who has the lock decides on the policy as it is.
SyntheticInv ==
    /\ Synthetic!SyntheticTypeOK
    /\ Synthetic!BudgetKept
    /\ \A c \in SyntheticCalls : synCall[c].pc = "locked" =>
          lock = c /\ synCall[c].read = policy

LEMMA SyntheticBegins == ASSUME Synthetic!SyntheticAssumption PROVE Synthetic!Init => SyntheticInv
<1> SUFFICES ASSUME Synthetic!Init
             PROVE  SyntheticInv
  OBVIOUS
<1> USE DEF Synthetic!Init, Synthetic!Resting, Synthetic!Kinds
<1>1. Synthetic!NoPolicy \in Synthetic!Policy
  BY DEF Synthetic!NoPolicy, Synthetic!Policy, Synthetic!SyntheticAssumption
<1>3. Synthetic!BudgetKept
  BY DEF Synthetic!BudgetKept, Synthetic!NoPolicy, Synthetic!SyntheticAssumption
<1> QED
  BY <1>1, <1>3 DEF SyntheticInv, Synthetic!SyntheticTypeOK

LEMMA SyntheticGoesOn ==
    ASSUME Synthetic!SyntheticAssumption, SyntheticInv, [Synthetic!Next]_Synthetic!vars
    PROVE  SyntheticInv'
<1> DEFINE SynCall == [pc : {"idle", "waiting", "locked"}, kind : Synthetic!Kinds,
                    read : Synthetic!Policy]
<1>0. Synthetic!NoPolicy \in Synthetic!Policy /\ Synthetic!Resting \in SynCall
  BY DEF Synthetic!NoPolicy, Synthetic!Policy, Synthetic!Resting, Synthetic!Kinds,
         Synthetic!SyntheticAssumption
<1>1. ASSUME NEW c \in SyntheticCalls, Synthetic!Arrive(c)
      PROVE  SyntheticInv'
  <2>1. PICK kind \in Synthetic!Kinds :
           synCall' = [synCall EXCEPT ![c] = [pc |-> "waiting", kind |-> kind, read |-> policy]]
    BY <1>1 DEF Synthetic!Arrive
  <2>2. synCall' \in [SyntheticCalls -> SynCall]
    BY <2>1 DEF SyntheticInv, Synthetic!SyntheticTypeOK
  <2> QED
    BY <1>1, <2>1, <2>2 DEF Synthetic!Arrive, SyntheticInv, Synthetic!SyntheticTypeOK,
                            Synthetic!BudgetKept
<1>2. ASSUME NEW c \in SyntheticCalls, Synthetic!lockedPolicy(c)
      PROVE  SyntheticInv'
  <2> USE <1>2 DEF Synthetic!lockedPolicy, SyntheticInv, Synthetic!SyntheticTypeOK
  <2>1. synCall' \in [SyntheticCalls -> SynCall]
    OBVIOUS
  <2>2. \A d \in SyntheticCalls : synCall[d].pc # "locked"
    BY DEF Synthetic!Unlocked, Synthetic!SyntheticAssumption
  <2>3. \A d \in SyntheticCalls : synCall'[d].pc = "locked" =>
           d = c /\ synCall'[d].read = policy
    BY <2>2
  <2> QED
    BY <2>1, <2>3 DEF Synthetic!BudgetKept
<1>3. ASSUME NEW c \in SyntheticCalls, synCall[c].pc = "locked", Synthetic!Leave(c)
      PROVE  /\ synCall[c].read = policy
             /\ lock' \in SyntheticCalls \cup {Synthetic!Unlocked}
             /\ synCall' \in [SyntheticCalls -> SynCall]
             /\ \A d \in SyntheticCalls : synCall'[d].pc # "locked"
  <2> USE <1>3 DEF Synthetic!Leave, SyntheticInv, Synthetic!SyntheticTypeOK
  <2>1. synCall' \in [SyntheticCalls -> SynCall]
    BY <1>0
  <2>2. \A d \in SyntheticCalls : synCall[d].pc = "locked" => d = c
    OBVIOUS
  <2>3. \A d \in SyntheticCalls : synCall'[d].pc # "locked"
    BY <2>2 DEF Synthetic!Resting
  <2> QED
    BY <2>1, <2>3
<1>4. ASSUME NEW c \in SyntheticCalls, Synthetic!reserveSyntheticOrder(c)
      PROVE  SyntheticInv'
  BY <1>3, <1>4 DEF Synthetic!reserveSyntheticOrder, SyntheticInv, Synthetic!SyntheticTypeOK,
       Synthetic!BudgetKept, Synthetic!OrderAllowed, Synthetic!Policy,
       Synthetic!SyntheticAssumption
<1>5. ASSUME NEW c \in SyntheticCalls, Synthetic!claimSyntheticEmail(c)
      PROVE  SyntheticInv'
  BY <1>3, <1>5 DEF Synthetic!claimSyntheticEmail, SyntheticInv, Synthetic!SyntheticTypeOK,
       Synthetic!BudgetKept, Synthetic!EmailAllowed, Synthetic!Policy,
       Synthetic!SyntheticAssumption
<1>6. ASSUME NEW c \in SyntheticCalls, Synthetic!enrollSyntheticProfile(c)
      PROVE  SyntheticInv'
  BY <1>0, <1>3, <1>6 DEF Synthetic!enrollSyntheticProfile, SyntheticInv, Synthetic!SyntheticTypeOK,
       Synthetic!BudgetKept, Synthetic!Policy, Synthetic!NoPolicy
<1>7. ASSUME NEW c \in SyntheticCalls, Synthetic!closeSyntheticProfile(c)
      PROVE  SyntheticInv'
  BY <1>3, <1>7 DEF Synthetic!closeSyntheticProfile, SyntheticInv, Synthetic!SyntheticTypeOK,
       Synthetic!BudgetKept, Synthetic!Policy
<1>8. ASSUME NEW c \in SyntheticCalls, Synthetic!Rollback(c)
      PROVE  SyntheticInv'
  BY <1>3, <1>8 DEF Synthetic!Rollback, SyntheticInv, Synthetic!SyntheticTypeOK,
       Synthetic!BudgetKept
<1>9. CASE UNCHANGED Synthetic!vars
  BY <1>9 DEF Synthetic!vars, SyntheticInv, Synthetic!SyntheticTypeOK, Synthetic!BudgetKept
<1> QED
  BY <1>1, <1>2, <1>4, <1>5, <1>6, <1>7, <1>8, <1>9 DEF Synthetic!Next

-----------------------------------------------------------------------------
(***************************************************************************)
(* HoursRefresh                                                            *)
(***************************************************************************)

LastPaid(s) == paid[s][Len(paid[s])]
Slack(s) == IF edits[s] = 0 THEN 0 ELSE RunTime

RefreshRun ==
    [pc : {"idle", "walking", "calling"}, began : 0 .. RefreshEnd,
     read : [PickupStores -> Refresh!Stamp], places : [PickupStores -> 0 .. MaxEdits],
     left : SUBSET PickupStores, store : PickupStores \cup {CHOOSE s \in PickupStores : TRUE}]

RefreshTyped ==
    /\ now \in 0 .. RefreshEnd
    /\ checked \in [PickupStores -> Refresh!Stamp]
    /\ edits \in [PickupStores -> 0 .. MaxEdits]
    /\ place \in [PickupStores -> 0 .. MaxEdits]
    /\ paid \in [PickupStores -> Seq(0 .. RefreshEnd)]
    /\ run \in [RunSlots -> RefreshRun]

\* A run ends within RunTime.
RunsInTime ==
    \A r \in RunSlots : run[r].pc # "idle" =>
        run[r].began <= now /\ now <= run[r].began + RunTime

\* A store was last checked no earlier than its last paid call, but for a run that
\* outlived an edit.
CheckedSincePaid ==
    \A s \in PickupStores : paid[s] # <<>> =>
        LastPaid(s) <= now /\ LastPaid(s) <= checked[s] + Slack(s)

\* Before the first edit of a store a call under way is the one last paid.
CallIsLastPaid ==
    \A r \in RunSlots : \A s \in PickupStores :
        run[r].pc = "calling" /\ run[r].store = s /\ edits[s] = 0 =>
            paid[s] # <<>> /\ run[r].began = LastPaid(s)

RefreshInv ==
    /\ RefreshTyped
    /\ RunsInTime
    /\ CheckedSincePaid
    /\ CallIsLastPaid
    /\ Refresh!PaidOncePerWeek

\* What typing says of single values.
LEMMA RefreshNumbers ==
    ASSUME Refresh!RefreshAssumption, RefreshTyped
    PROVE  /\ now \in Nat /\ RefreshWeek \in Nat /\ RunTime \in Nat /\ RunTime < RefreshWeek
           /\ \A r \in RunSlots : run[r] \in RefreshRun /\ run[r].began \in Nat
           /\ \A s \in PickupStores :
                 /\ checked[s] \in Int /\ paid[s] \in Seq(Nat) /\ Len(paid[s]) \in Nat
                 /\ Slack(s) \in 0 .. RunTime /\ (edits[s] = 0 => Slack(s) = 0)
                 /\ \A i \in 1 .. Len(paid[s]) : paid[s][i] \in Nat
                 /\ paid[s] # <<>> => LastPaid(s) \in Nat /\ Len(paid[s]) \in 1 .. Len(paid[s])
<1> USE DEF Refresh!RefreshAssumption
<1>1. now \in Nat /\ RefreshWeek \in Nat /\ RunTime \in Nat /\ RunTime < RefreshWeek
  BY DEF RefreshTyped
<1>2. ASSUME NEW r \in RunSlots
      PROVE  run[r] \in RefreshRun /\ run[r].began \in Nat
  BY DEF RefreshTyped, RefreshRun
<1>3. ASSUME NEW s \in PickupStores
      PROVE  /\ checked[s] \in Int /\ paid[s] \in Seq(Nat) /\ Len(paid[s]) \in Nat
             /\ Slack(s) \in 0 .. RunTime /\ (edits[s] = 0 => Slack(s) = 0)
             /\ \A i \in 1 .. Len(paid[s]) : paid[s][i] \in Nat
             /\ paid[s] # <<>> => LastPaid(s) \in Nat /\ Len(paid[s]) \in 1 .. Len(paid[s])
  <2>1. checked[s] \in Int
    BY <1>1 DEF RefreshTyped, Refresh!Stamp, Refresh!Never
  <2>2. paid[s] \in Seq(0 .. RefreshEnd)
    BY DEF RefreshTyped
  <2>3. Slack(s) \in 0 .. RunTime /\ (edits[s] = 0 => Slack(s) = 0)
    BY <1>1 DEF Slack
  <2>4. paid[s] # <<>> => Len(paid[s]) \in 1 .. Len(paid[s])
    BY <2>2
  <2>5. /\ paid[s] \in Seq(Nat) /\ Len(paid[s]) \in Nat
        /\ \A i \in 1 .. Len(paid[s]) : paid[s][i] \in Nat
    BY <2>2
  <2> QED
    BY <2>1, <2>3, <2>4, <2>5 DEF LastPaid
<1> QED
  BY <1>1, <1>2, <1>3

LEMMA RefreshBegins == ASSUME Refresh!RefreshAssumption PROVE Refresh!Init => RefreshInv
<1> SUFFICES ASSUME Refresh!Init
             PROVE  RefreshInv
  OBVIOUS
<1> USE DEF Refresh!Init, Refresh!RefreshAssumption
<1>1. Refresh!Never \in Refresh!Stamp /\ now = 0 /\ 0 \in 0 .. RefreshEnd /\ 0 \in 0 .. MaxEdits
  BY DEF Refresh!Stamp
<1>2. run \in [RunSlots -> RefreshRun]
  BY <1>1 DEF RefreshRun
<1>3. \A s \in PickupStores : paid[s] = <<>>
  OBVIOUS
<1>4. Refresh!PaidOncePerWeek
  BY <1>3 DEF Refresh!PaidOncePerWeek
<1>5. paid \in [PickupStores -> Seq(0 .. RefreshEnd)]
  OBVIOUS
<1>6. RefreshTyped
  BY <1>1, <1>2, <1>5 DEF RefreshTyped
<1>7. \A r \in RunSlots : run[r].pc = "idle"
  OBVIOUS
<1>8. RunsInTime /\ CheckedSincePaid /\ CallIsLastPaid
  BY <1>3, <1>7 DEF RunsInTime, CheckedSincePaid, CallIsLastPaid
<1> QED
  BY <1>4, <1>6, <1>8 DEF RefreshInv

\* A run that takes a step without calling for a store touches nothing else.
LEMMA RunsMove ==
    ASSUME Refresh!RefreshAssumption, RefreshInv,
           NEW r \in RunSlots, NEW row \in RefreshRun,
           run' = [run EXCEPT ![r] = row],
           row.pc # "calling",
           row.pc # "idle" => row.began <= now /\ now <= row.began + RunTime,
           UNCHANGED <<now, checked, edits, place, paid>>
    PROVE  RefreshInv'
<1>1. /\ run' \in [RunSlots -> RefreshRun] /\ run'[r] = row
      /\ \A q \in RunSlots : q # r => run'[q] = run[q]
  BY DEF RefreshInv, RefreshTyped
<1>2. Refresh!PaidOncePerWeek'
  BY DEF RefreshInv, Refresh!PaidOncePerWeek
<1>3. RefreshTyped'
  BY <1>1 DEF RefreshInv, RefreshTyped
<1>4. RunsInTime'
  BY <1>1 DEF RefreshInv, RunsInTime
<1>5. CheckedSincePaid' /\ CallIsLastPaid'
  BY <1>1 DEF RefreshInv, CheckedSincePaid, CallIsLastPaid, LastPaid, Slack
<1> QED
  BY <1>2, <1>3, <1>4, <1>5 DEF RefreshInv

LEMMA RefreshTicks ==
    ASSUME Refresh!RefreshAssumption, RefreshInv, Refresh!Tick
    PROVE  RefreshInv'
<1>1. /\ now' = now + 1 /\ now < RefreshEnd
      /\ \A r \in RunSlots : run[r].pc # "idle" => now < run[r].began + RunTime
      /\ UNCHANGED <<checked, edits, place, run, paid>>
  BY DEF Refresh!Tick
<1>2. /\ now \in Nat /\ RunTime \in Nat
      /\ \A r \in RunSlots : run[r].began \in Nat
      /\ \A s \in PickupStores : paid[s] # <<>> => LastPaid(s) \in Nat
  BY RefreshNumbers DEF RefreshInv
<1>3. RefreshTyped'
  BY <1>1 DEF RefreshInv, RefreshTyped, Refresh!RefreshAssumption
<1>4. RunsInTime'
  BY <1>1, <1>2 DEF RefreshInv, RunsInTime
<1>5. \A s \in PickupStores : paid'[s] = paid[s] /\ LastPaid(s)' = LastPaid(s) /\ Slack(s)' = Slack(s)
  BY <1>1 DEF LastPaid, Slack
<1>6. CheckedSincePaid' /\ CallIsLastPaid'
  BY <1>1, <1>2, <1>5 DEF RefreshInv, CheckedSincePaid, CallIsLastPaid
<1>7. Refresh!PaidOncePerWeek'
  BY <1>1 DEF RefreshInv, Refresh!PaidOncePerWeek
<1> QED
  BY <1>3, <1>4, <1>6, <1>7 DEF RefreshInv

LEMMA PlacesChange ==
    ASSUME Refresh!RefreshAssumption, RefreshInv,
           NEW s \in PickupStores, Refresh!updatePickupLocation(s)
    PROVE  RefreshInv'
<1> USE DEF Refresh!updatePickupLocation, Refresh!RefreshAssumption
<1>1. /\ checked' \in [PickupStores -> Refresh!Stamp]
      /\ edits' \in [PickupStores -> 0 .. MaxEdits] /\ edits'[s] # 0
      /\ place' \in [PickupStores -> 0 .. MaxEdits]
      /\ paid' \in [PickupStores -> Seq(0 .. RefreshEnd)]
      /\ paid'[s] = <<>>
      /\ UNCHANGED <<now, run>>
  BY DEF RefreshInv, RefreshTyped, Refresh!Stamp
<1>2. \A t \in PickupStores : t # s =>
         /\ checked'[t] = checked[t] /\ edits'[t] = edits[t] /\ paid'[t] = paid[t]
         /\ LastPaid(t)' = LastPaid(t) /\ Slack(t)' = Slack(t)
  BY DEF RefreshInv, RefreshTyped, LastPaid, Slack
<1> HIDE DEF Refresh!updatePickupLocation, Refresh!RefreshAssumption
<1>3. RefreshTyped' /\ RunsInTime'
  BY <1>1 DEF RefreshInv, RefreshTyped, RunsInTime
<1>4. CheckedSincePaid'
  BY <1>1, <1>2 DEF RefreshInv, CheckedSincePaid
<1>5. CallIsLastPaid'
  BY <1>1, <1>2 DEF RefreshInv, CallIsLastPaid
<1>6. Refresh!PaidOncePerWeek'
  <2> SUFFICES ASSUME NEW t \in PickupStores, NEW i \in DOMAIN paid'[t],
                      NEW j \in DOMAIN paid'[t], i < j
               PROVE  paid'[t][i] + RefreshWeek <=
                         paid'[t][j] + (IF edits'[t] = 0 THEN 0 ELSE RunTime)
    BY DEF Refresh!PaidOncePerWeek
  <2>1. t # s
    BY <1>1
  <2> QED
    BY <2>1, <1>2 DEF RefreshInv, Refresh!PaidOncePerWeek
<1> QED
  BY <1>3, <1>4, <1>5, <1>6 DEF RefreshInv

\* A claim: the store's last paid call is a week before it, or a run's time less when
\* its place was edited.
LEMMA StoresClaimed ==
    ASSUME Refresh!RefreshAssumption, RefreshInv,
           NEW r \in RunSlots, NEW s \in PickupStores,
           run[r].pc = "walking", ~Refresh!Fresh(r, s), checked[s] = run[r].read[s],
           Refresh!Claimed(r, s), UNCHANGED <<now, edits, place>>
    PROVE  RefreshInv'
<1> DEFINE b == run[r].began
           row == [run[r] EXCEPT !.pc = "calling", !.store = s, !.left = @ \ {s}]
<1>0. RefreshTyped /\ run[r] \in RefreshRun
  BY DEF RefreshInv, RefreshTyped
<1>1. /\ row \in RefreshRun /\ row.pc = "calling" /\ row.began = b /\ row.store = s
      /\ b \in 0 .. RefreshEnd
  BY <1>0 DEF RefreshRun
<1>2. run' = [run EXCEPT ![r] = row]
  BY DEF Refresh!Claimed
<1>3. /\ b <= now /\ now <= b + RunTime /\ b \in Nat
      /\ checked[s] \in Int /\ checked[s] + RefreshWeek <= b
  <2>1. b <= now /\ now <= b + RunTime
    BY DEF RefreshInv, RunsInTime
  <2>2. checked[s] \in Int /\ RefreshWeek \in Nat /\ b \in Nat
    BY <1>0, RefreshNumbers
  <2> QED
    BY <2>1, <2>2 DEF Refresh!Fresh
<1>4. /\ checked' = [checked EXCEPT ![s] = b]
      /\ paid' = [paid EXCEPT ![s] = Append(@, b)]
  BY DEF Refresh!Claimed
<1> HIDE DEF b, row
<1>5. /\ run' \in [RunSlots -> RefreshRun] /\ run'[r] = row
      /\ \A q \in RunSlots : q # r => run'[q] = run[q]
  BY <1>0, <1>1, <1>2 DEF RefreshTyped
<1>6. /\ checked' \in [PickupStores -> Refresh!Stamp] /\ checked'[s] = b
      /\ \A t \in PickupStores : t # s => checked'[t] = checked[t]
  BY <1>0, <1>1, <1>4 DEF RefreshTyped, Refresh!Stamp
<1>7. /\ paid' \in [PickupStores -> Seq(0 .. RefreshEnd)] /\ paid'[s] = Append(paid[s], b)
      /\ \A t \in PickupStores : t # s => paid'[t] = paid[t]
  BY <1>0, <1>1, <1>4 DEF RefreshTyped
<1>8. paid[s] \in Seq(Nat) /\ Len(paid[s]) \in Nat
  BY <1>0, RefreshNumbers
<1>9. /\ paid'[s] # <<>> /\ Len(paid'[s]) = Len(paid[s]) + 1
      /\ paid'[s][Len(paid[s]) + 1] = b
      /\ \A i \in 1 .. Len(paid[s]) : paid'[s][i] = paid[s][i]
  BY <1>3, <1>7, <1>8
<1>10. LastPaid(s)' = b /\ \A t \in PickupStores : t # s => LastPaid(t)' = LastPaid(t)
  BY <1>7, <1>9 DEF LastPaid
<1>11. \A t \in PickupStores : Slack(t)' = Slack(t)
  BY DEF Slack
\* What was paid before was paid by the last time or well before it.
<1>12. ASSUME NEW i \in 1 .. Len(paid[s])
       PROVE  paid[s][i] + RefreshWeek <= b + Slack(s)
  <2>1. /\ paid[s] # <<>> /\ paid[s][i] \in Nat /\ LastPaid(s) \in Nat
        /\ Slack(s) \in 0 .. RunTime /\ RunTime \in Nat /\ RefreshWeek \in Nat
        /\ RunTime < RefreshWeek
    <3>1. paid[s] # <<>>
      BY <1>8, <1>12
    <3> QED
      BY <1>0, <1>12, <3>1, RefreshNumbers
  <2>2. LastPaid(s) <= checked[s] + Slack(s)
    BY <2>1 DEF RefreshInv, CheckedSincePaid
  <2>3. CASE i = Len(paid[s])
    BY <2>1, <2>2, <2>3, <1>3 DEF LastPaid
  <2>4. CASE i < Len(paid[s])
    <3>1. i \in DOMAIN paid[s] /\ Len(paid[s]) \in DOMAIN paid[s]
      BY <1>8, <1>12, <2>4
    <3>2. paid[s][i] + RefreshWeek <= LastPaid(s) + Slack(s)
      BY <2>4, <3>1 DEF RefreshInv, Refresh!PaidOncePerWeek, LastPaid, Slack
    <3>3. Slack(s) \in Nat /\ Slack(s) < RefreshWeek
      BY <2>1
    <3>4. \A p, last, checkedAt, slack \in Int :
             /\ p + RefreshWeek <= last + slack /\ last <= checkedAt + slack
             /\ checkedAt + RefreshWeek <= b /\ slack < RefreshWeek
             => p + RefreshWeek <= b + slack
      BY <2>1, <1>3
    <3>5. Slack(s) \in Int /\ paid[s][i] \in Int /\ LastPaid(s) \in Int /\ checked[s] \in Int
      BY <2>1, <3>3, <1>3
    <3> QED
      BY ONLY <2>2, <3>2, <3>3, <3>4, <3>5, <1>3
  <2> QED
    BY <1>8, <1>12, <2>3, <2>4
<1>13. Refresh!PaidOncePerWeek'
  <2> SUFFICES ASSUME NEW t \in PickupStores, NEW i \in DOMAIN paid'[t],
                      NEW j \in DOMAIN paid'[t], i < j
               PROVE  paid'[t][i] + RefreshWeek <= paid'[t][j] + Slack(t)
    BY <1>11 DEF Refresh!PaidOncePerWeek, Slack
  <2>1. CASE t # s
    BY <2>1, <1>7 DEF RefreshInv, Refresh!PaidOncePerWeek, Slack
  <2>2. CASE t = s
    <3>1. DOMAIN paid'[s] = 1 .. Len(paid[s]) + 1 /\ DOMAIN paid[s] = 1 .. Len(paid[s])
      BY <1>3, <1>7, <1>8
    <3>2. i \in 1 .. Len(paid[s]) /\ j \in 1 .. Len(paid[s]) + 1
      BY <2>2, <3>1, <1>8
    <3>3. CASE j = Len(paid[s]) + 1
      BY <2>2, <3>2, <3>3, <1>9, <1>12
    <3>4. CASE j \in 1 .. Len(paid[s])
      <4>1. paid[s][i] + RefreshWeek <= paid[s][j] + Slack(s)
        BY <3>1, <3>2, <3>4 DEF RefreshInv, Refresh!PaidOncePerWeek, Slack
      <4>2. paid'[s][i] = paid[s][i] /\ paid'[s][j] = paid[s][j]
        BY <3>2, <3>4, <1>9
      <4> QED
        BY <2>2, <4>1, <4>2
    <3>5. j = Len(paid[s]) + 1 \/ j \in 1 .. Len(paid[s])
      BY <3>2, <1>8
    <3> QED
      BY <3>3, <3>4, <3>5
  <2> QED
    BY <2>1, <2>2
\* Before its first edit nobody else calls for this store.
<1>14. ASSUME NEW q \in RunSlots, q # r, edits[s] = 0,
              run[q].pc = "calling", run[q].store = s
       PROVE  FALSE
  <2>1. paid[s] # <<>> /\ run[q].began = LastPaid(s)
    BY <1>14 DEF RefreshInv, CallIsLastPaid
  <2>2. /\ now <= run[q].began + RunTime /\ LastPaid(s) <= checked[s] + Slack(s)
    BY <1>14, <2>1 DEF RefreshInv, RunsInTime, CheckedSincePaid
  <2>3. /\ Slack(s) = 0 /\ now \in Nat /\ run[q].began \in Nat /\ RunTime \in Nat
        /\ RefreshWeek \in Nat /\ RunTime < RefreshWeek
    BY <1>0, <1>14, RefreshNumbers
  <2> QED
    BY <2>1, <2>2, <2>3, <1>3
<1>15. RefreshTyped'
  BY <1>0, <1>5, <1>6, <1>7 DEF RefreshTyped
<1>16. RunsInTime'
  BY <1>1, <1>3, <1>5 DEF RefreshInv, RunsInTime
<1>17. CheckedSincePaid'
  <2>1. Slack(s) \in Nat
    BY <1>0, RefreshNumbers
  <2> QED
    BY <2>1, <1>3, <1>6, <1>7, <1>10, <1>11 DEF RefreshInv, CheckedSincePaid
<1>18. CallIsLastPaid'
  BY <1>1, <1>5, <1>7, <1>9, <1>10, <1>14 DEF RefreshInv, CallIsLastPaid
<1> QED
  BY <1>13, <1>15, <1>16, <1>17, <1>18 DEF RefreshInv

\* An answer or a failure writes the stamp of the claim again.
LEMMA AnswersStored ==
    ASSUME Refresh!RefreshAssumption, RefreshInv,
           NEW r \in RunSlots, Refresh!Store(r)
    PROVE  RefreshInv'
<1> DEFINE b == run[r].began
           s == run[r].store
           row == [run[r] EXCEPT !.pc = "walking"]
<1>0. RefreshTyped /\ run[r] \in RefreshRun /\ run[r].pc = "calling"
  BY DEF RefreshInv, RefreshTyped, Refresh!Store
<1>1. /\ row \in RefreshRun /\ row.pc = "walking" /\ row.began = b
      /\ b \in 0 .. RefreshEnd /\ run[r].places \in [PickupStores -> 0 .. MaxEdits]
  BY <1>0 DEF RefreshRun
<1>2. run' = [run EXCEPT ![r] = row] /\ checked' = [checked EXCEPT ![s] = b]
      /\ UNCHANGED <<now, edits, paid>>
  BY DEF Refresh!Store
<1>3. /\ b <= now /\ now <= b + RunTime /\ b \in Nat /\ now \in Nat /\ RunTime \in Nat
  BY <1>0, RefreshNumbers DEF RefreshInv, RunsInTime
<1>4. place' \in [PickupStores -> 0 .. MaxEdits]
  <2>1. CASE place' = [place EXCEPT ![s] = run[r].places[s]]
    BY <2>1, <1>0, <1>1 DEF RefreshTyped
  <2> QED
    BY <2>1, <1>0 DEF Refresh!Store, RefreshTyped
<1>5. CallIsLastPaid /\ CheckedSincePaid /\ RunsInTime
  BY DEF RefreshInv
<1> HIDE DEF b, row
<1>6. /\ run' \in [RunSlots -> RefreshRun] /\ run'[r] = row
      /\ \A q \in RunSlots : q # r => run'[q] = run[q]
  BY <1>0, <1>1, <1>2 DEF RefreshTyped
<1>7. /\ checked' \in [PickupStores -> Refresh!Stamp]
      /\ \A t \in PickupStores : checked'[t] = IF t = s THEN b ELSE checked[t]
  BY <1>0, <1>1, <1>2 DEF RefreshTyped, Refresh!Stamp
<1>8. \A t \in PickupStores : paid'[t] = paid[t] /\ LastPaid(t)' = LastPaid(t) /\ Slack(t)' = Slack(t)
  BY <1>2 DEF LastPaid, Slack
<1>9. RefreshTyped'
  BY <1>0, <1>2, <1>4, <1>6, <1>7 DEF RefreshTyped
<1>10. RunsInTime'
  BY <1>1, <1>2, <1>3, <1>5, <1>6 DEF RunsInTime
<1>11. CallIsLastPaid'
  BY <1>1, <1>2, <1>5, <1>6, <1>8 DEF CallIsLastPaid
<1>12. CheckedSincePaid'
  <2> SUFFICES ASSUME NEW t \in PickupStores, paid[t] # <<>>
               PROVE  LastPaid(t) <= now /\ LastPaid(t) <= checked'[t] + Slack(t)
    BY <1>2, <1>8 DEF CheckedSincePaid
  <2>1. LastPaid(t) <= now /\ LastPaid(t) <= checked[t] + Slack(t) /\ LastPaid(t) \in Nat
    BY <1>0, <1>5, RefreshNumbers DEF CheckedSincePaid
  <2>2. CASE t = s /\ edits[t] = 0
    <3>1. LastPaid(t) = b /\ Slack(t) = 0
      BY <2>2, <1>0, <1>5 DEF CallIsLastPaid, Slack, b
    <3> QED
      BY <2>1, <2>2, <3>1, <1>7, <1>3
  <2>3. CASE t = s /\ edits[t] # 0
    <3>1. Slack(t) = RunTime
      BY <2>3 DEF Slack
    <3> QED
      BY <2>1, <2>3, <3>1, <1>7, <1>3
  <2>4. CASE t # s
    BY <2>1, <2>4, <1>7
  <2> QED
    BY <2>2, <2>3, <2>4
<1>13. Refresh!PaidOncePerWeek'
  BY <1>2 DEF RefreshInv, Refresh!PaidOncePerWeek
<1> QED
  BY <1>9, <1>10, <1>11, <1>12, <1>13 DEF RefreshInv

LEMMA RefreshGoesOn ==
    ASSUME Refresh!RefreshAssumption, RefreshInv, [Refresh!Next]_Refresh!vars
    PROVE  RefreshInv'
<1>1. ASSUME NEW r \in RunSlots, Refresh!refreshPickupLocationHours(r)
      PROVE  RefreshInv'
  <2>1. PICK S \in {PickupStores} \cup {{s} : s \in PickupStores} :
           run' = [run EXCEPT ![r] = [pc |-> "walking", began |-> now, read |-> checked,
                                      places |-> place, left |-> S, store |-> run[r].store]]
    BY <1>1 DEF Refresh!refreshPickupLocationHours
  <2> DEFINE row == [pc |-> "walking", began |-> now, read |-> checked,
                     places |-> place, left |-> S, store |-> run[r].store]
  <2>2. row \in RefreshRun
    <3>1. S \subseteq PickupStores
      OBVIOUS
    <3>2. run[r].store \in PickupStores \cup {CHOOSE s \in PickupStores : TRUE}
      BY DEF RefreshInv, RefreshTyped, RefreshRun
    <3> QED
      BY <3>1, <3>2 DEF RefreshInv, RefreshTyped, RefreshRun
  <2>3. row.pc = "walking" /\ row.began = now /\ now \in Nat /\ RunTime \in Nat
    BY RefreshNumbers DEF RefreshInv
  <2>4. run' = [run EXCEPT ![r] = row]
    BY <2>1
  <2>5. UNCHANGED <<now, checked, edits, place, paid>>
    BY <1>1 DEF Refresh!refreshPickupLocationHours
  <2> HIDE DEF row
  <2>6. row.pc # "calling" /\ row.began <= now /\ now <= row.began + RunTime
    BY <2>3
  <2> QED
    BY <2>2, <2>4, <2>5, <2>6, RunsMove
<1>2. ASSUME NEW r \in RunSlots, Refresh!RunEnds(r)
      PROVE  RefreshInv'
  <2> DEFINE row == [run[r] EXCEPT !.pc = "idle", !.left = {}]
  <2>1. row \in RefreshRun /\ row.pc = "idle"
    BY DEF RefreshInv, RefreshTyped, RefreshRun
  <2>2. run' = [run EXCEPT ![r] = row]
    BY <1>2 DEF Refresh!RunEnds
  <2> HIDE DEF row
  <2> QED
    BY <1>2, <2>1, <2>2, RunsMove DEF Refresh!RunEnds
<1>3. ASSUME NEW r \in RunSlots, NEW s \in PickupStores, Refresh!Claim(r, s)
      PROVE  RefreshInv'
  <2>1. CASE Refresh!Skipped(r, s)
    <3> DEFINE row == [run[r] EXCEPT !.left = @ \ {s}]
    <3>1. /\ row \in RefreshRun /\ row.pc = "walking" /\ row.began = run[r].began
          /\ run[r].pc = "walking"
      BY <1>3 DEF Refresh!Claim, RefreshInv, RefreshTyped, RefreshRun
    <3>2. run' = [run EXCEPT ![r] = row]
      BY <2>1 DEF Refresh!Skipped
    <3>3. run[r].began <= now /\ now <= run[r].began + RunTime
      BY <3>1 DEF RefreshInv, RunsInTime
    <3> HIDE DEF row
    <3> QED
      BY <1>3, <2>1, <3>1, <3>2, <3>3, RunsMove DEF Refresh!Skipped, Refresh!Claim
  <2> QED
    BY <1>3, <2>1, StoresClaimed DEF Refresh!Claim
<1>4. CASE UNCHANGED Refresh!vars
  BY <1>4 DEF Refresh!vars, RefreshInv, RefreshTyped, RunsInTime, CheckedSincePaid,
              CallIsLastPaid, Refresh!PaidOncePerWeek, LastPaid, Slack
<1> QED
  BY <1>1, <1>2, <1>3, <1>4, RefreshTicks, PlacesChange, AnswersStored DEF Refresh!Next

-----------------------------------------------------------------------------
(***************************************************************************)
(* BusinessHours                                                           *)
(***************************************************************************)

\* A slot that was paid for is not after the last one that was claimed.
ShopInv ==
    /\ attempt \in Int
    /\ now \in Nat
    /\ refresh \in [Processes -> [pc : {"idle", "due", "calling"}, began : Nat]]
    /\ slotCalls \in [Shop!Slots -> Nat]
    /\ \A s \in Shop!Slots : slotCalls[s] = 0 \/ (slotCalls[s] = 1 /\ s <= attempt)

LEMMA ShopBegins == ASSUME Shop!BusinessHoursAssumption PROVE Shop!Init => ShopInv
BY DEF Shop!BusinessHoursAssumption, Shop!Init, ShopInv

LEMMA ShopGoesOn ==
    ASSUME Shop!BusinessHoursAssumption, ShopInv, [Shop!Next]_Shop!vars
    PROVE  ShopInv'
<1> DEFINE Refreshing == [pc : {"idle", "due", "calling"}, began : Nat]
<1>1. /\ Day \in Nat \ {0} /\ SlotStart \in Int
      /\ Shop!Slots \subseteq Int
  <2>1. \A t \in Int : (t - SlotStart) \div Day \in Int
    BY DEF Shop!BusinessHoursAssumption
  <2> QED
    BY <2>1 DEF Shop!BusinessHoursAssumption, Shop!Slots, Shop!dailyHoursSlot
<1>2. ASSUME NEW p \in Processes
      PROVE  /\ refresh[p] \in Refreshing /\ refresh[p].began \in Nat
             /\ Shop!dailyHoursSlot(refresh[p].began) \in Int
  <2>1. refresh[p] \in Refreshing /\ refresh[p].began \in Nat
    BY DEF ShopInv
  <2> QED
    BY <2>1, <1>1 DEF Shop!dailyHoursSlot
<1>3. CASE Shop!Tick
  BY <1>3 DEF Shop!Tick, ShopInv
<1>4. ASSUME NEW p \in Processes, Shop!run(p)
      PROVE  ShopInv'
  BY <1>4 DEF Shop!run, ShopInv
<1>5. ASSUME NEW p \in Processes, Shop!claimSlot(p)
      PROVE  ShopInv'
  <2> DEFINE slot == Shop!dailyHoursSlot(refresh[p].began)
  <2>1. refresh' \in [Processes -> Refreshing]
    BY <1>2, <1>5 DEF Shop!claimSlot, ShopInv
  <2>2. CASE attempt < slot
    <3>1. attempt' = slot /\ slotCalls' = [slotCalls EXCEPT ![slot] = @ + 1] /\ now' = now
      BY <1>5, <2>2 DEF Shop!claimSlot
    <3>2. slot \in Int
      BY <1>2
    <3> HIDE DEF slot
    <3>3. slotCalls' \in [Shop!Slots -> Nat]
      <4>1. slotCalls' = [s \in Shop!Slots |-> IF s = slot THEN slotCalls[s] + 1 ELSE slotCalls[s]]
        BY <3>1 DEF ShopInv
      <4>2. \A s \in Shop!Slots : slotCalls[s] \in Nat
        BY DEF ShopInv
      <4> QED
        BY <4>1, <4>2
    <3>4. ASSUME NEW s \in Shop!Slots
          PROVE  slotCalls'[s] = 0 \/ (slotCalls'[s] = 1 /\ s <= attempt')
      BY <1>1, <2>2, <3>1, <3>2 DEF ShopInv
    <3> QED
      BY <2>1, <3>1, <3>2, <3>3, <3>4 DEF ShopInv
  <2>3. CASE ~(attempt < slot)
    <3>1. UNCHANGED <<now, attempt, slotCalls>>
      BY <1>5, <2>3 DEF Shop!claimSlot
    <3> QED
      BY <2>1, <3>1 DEF ShopInv
  <2> QED
    BY <2>2, <2>3
<1>6. ASSUME NEW p \in Processes, Shop!refreshBusinessHours(p)
      PROVE  ShopInv'
  <2>1. /\ refresh' = [refresh EXCEPT ![p] = [pc |-> "idle", began |-> 0]]
        /\ UNCHANGED <<now, attempt, slotCalls>>
    BY <1>6 DEF Shop!refreshBusinessHours
  <2> QED
    BY <2>1 DEF ShopInv
<1>7. ASSUME NEW p \in Processes, Shop!RefreshFails(p)
      PROVE  ShopInv'
  BY <1>7 DEF Shop!RefreshFails, ShopInv
<1>8. CASE UNCHANGED Shop!vars
  BY <1>8 DEF Shop!vars, ShopInv
<1> QED
  BY <1>3, <1>4, <1>5, <1>6, <1>7, <1>8 DEF Shop!Next

-----------------------------------------------------------------------------
(***************************************************************************)
(* AssignmentPush                                                          *)
(***************************************************************************)
PushNotice ==
    [pc : {"new", "sending", "refused", "pending", "fired", "needed", "done"},
     driver : Drivers \cup {CHOOSE d \in Drivers : TRUE}, token : 0 .. MaxToken, attempt : 1 .. 2]

\* A notice was sent once at most when its retry is decided, and a refusal is of a
\* token that the provider no longer delivers to.
PushInv ==
    /\ token \in [Drivers -> 0 .. MaxToken]
    /\ issued \in 0 .. MaxToken
    /\ notice \in [Notices -> PushNotice]
    /\ sends \in [Notices -> Nat]
    /\ \A n \in Notices :
          /\ sends[n] <= notice[n].attempt
          /\ notice[n].pc = "new" => sends[n] = 0
          /\ notice[n].pc \in {"pending", "fired", "needed"} => notice[n].attempt = 1
          /\ notice[n].pc = "refused" => notice[n].token \in dead

\* The parts of a notice, and a token that was registered.
LEMMA PushValues ==
    ASSUME Push!PushAssumption, PushInv
    PROVE  /\ \A n \in Notices : /\ notice[n] \in PushNotice /\ notice[n].attempt \in 1 .. 2
                                 /\ sends[n] \in Nat
           /\ \A d \in Drivers : token[d] \in 0 .. MaxToken
BY DEF PushInv, PushNotice

LEMMA PushBegins == ASSUME Push!PushAssumption PROVE Push!Init => PushInv
<1> SUFFICES ASSUME Push!Init
             PROVE  PushInv
  OBVIOUS
<1> USE DEF Push!Init, Push!PushAssumption
<1>1. notice \in [Notices -> PushNotice]
  BY DEF PushNotice
<1>2. token \in [Drivers -> 0 .. MaxToken] /\ issued \in 0 .. MaxToken
  OBVIOUS
<1> QED
  BY <1>1, <1>2 DEF PushInv

\* A step of one notice: what it may do to that notice for the invariant to go on.
LEMMA PushOneNotice ==
    ASSUME Push!PushAssumption, PushInv, NEW n \in Notices,
           token' \in [Drivers -> 0 .. MaxToken], issued' = issued, dead' = dead,
           NEW row \in PushNotice, notice' = [notice EXCEPT ![n] = row],
           NEW times \in Nat, sends' = [sends EXCEPT ![n] = times],
           times <= row.attempt,
           row.pc = "new" => times = 0,
           row.pc \in {"pending", "fired", "needed"} => row.attempt = 1,
           row.pc = "refused" => row.token \in dead
    PROVE  PushInv'
<1>1. /\ notice' \in [Notices -> PushNotice] /\ notice'[n] = row
      /\ \A o \in Notices : o # n => notice'[o] = notice[o]
      /\ sends' \in [Notices -> Nat] /\ sends'[n] = times
      /\ \A o \in Notices : o # n => sends'[o] = sends[o]
  BY DEF PushInv
<1> QED
  BY <1>1 DEF PushInv

LEMMA PushGoesOn ==
    ASSUME Push!PushAssumption, PushInv, [Push!Next]_Push!vars
    PROVE  PushInv'
<1>0. /\ \A n \in Notices : /\ notice[n] \in PushNotice /\ notice[n].attempt \in 1 .. 2
                            /\ sends[n] \in Nat
      /\ \A d \in Drivers : token[d] \in 0 .. MaxToken
  BY PushValues
<1> USE DEF Push!PushAssumption
\* A step of the notice that hands nothing to the provider.
<1>1. ASSUME NEW n \in Notices, NEW pc \in {"refused", "pending", "fired", "needed", "done"},
             notice' = [notice EXCEPT ![n].pc = pc],
             pc = "refused" => notice[n].token \in dead,
             pc \in {"pending", "fired", "needed"} => notice[n].attempt = 1,
             token' \in [Drivers -> 0 .. MaxToken], UNCHANGED <<issued, dead, sends>>
      PROVE  PushInv'
  <2> DEFINE row == [notice[n] EXCEPT !.pc = pc]
  <2>1. /\ row \in PushNotice /\ row.pc = pc /\ row.attempt = notice[n].attempt
        /\ row.token = notice[n].token
    BY <1>0 DEF PushNotice
  <2>2. notice' = [notice EXCEPT ![n] = row] /\ sends' = [sends EXCEPT ![n] = sends[n]]
    BY <1>1 DEF PushInv
  <2>3. sends[n] <= notice[n].attempt /\ sends[n] \in Nat
    BY <1>0 DEF PushInv
  <2>4. issued' = issued /\ dead' = dead /\ row.pc # "new"
    BY <1>1, <2>1
  <2>5. row.pc = "refused" => row.token \in dead
    BY <1>1, <2>1
  <2>6. row.pc \in {"pending", "fired", "needed"} => row.attempt = 1
    BY <1>1, <2>1
  <2> HIDE DEF row
  <2> QED
    BY <1>1, <2>1, <2>2, <2>3, <2>4, <2>5, <2>6, PushOneNotice
<1>2. ASSUME NEW d \in Drivers, Push!Register(d)
      PROVE  PushInv'
  <2>1. issued' \in 0 .. MaxToken /\ token' \in [Drivers -> 0 .. MaxToken]
    BY <1>2 DEF Push!Register, PushInv
  <2> QED
    BY <1>2, <2>1 DEF Push!Register, PushInv
<1>3. ASSUME NEW d \in Drivers, Push!Unregister(d)
      PROVE  PushInv'
  BY <1>3 DEF Push!Unregister, PushInv
<1>4. ASSUME NEW n \in Notices, NEW d \in Drivers, Push!Assign(n, d)
      PROVE  PushInv'
  <2>1. PICK pc \in {"sending", "done"} :
           /\ notice' = [notice EXCEPT ![n] = [pc |-> pc, driver |-> d, token |-> token[d],
                                               attempt |-> 1]]
    BY <1>4 DEF Push!Assign
  <2>2. PICK times \in {0, 1} : sends' = [sends EXCEPT ![n] = times]
    <3>1. sends[n] = 0
      BY <1>4 DEF Push!Assign, PushInv
    <3>2. CASE stopped
      BY <1>4, <3>1, <3>2 DEF Push!Assign, PushInv
    <3>3. CASE ~stopped
      BY <1>4, <3>1, <3>3 DEF Push!Assign, Push!Send, PushInv
    <3> QED
      BY <3>2, <3>3
  <2> DEFINE row == [pc |-> pc, driver |-> d, token |-> token[d], attempt |-> 1]
  <2>3. /\ row \in PushNotice /\ row.pc \in {"sending", "done"} /\ row.attempt = 1
        /\ times \in Nat /\ times <= 1
    BY <1>0 DEF PushNotice
  <2>4. token' \in [Drivers -> 0 .. MaxToken] /\ issued' = issued /\ dead' = dead
    BY <1>4 DEF Push!Assign, PushInv
  <2>5. notice' = [notice EXCEPT ![n] = row]
    BY <2>1
  <2> HIDE DEF row
  <2> QED
    BY <2>2, <2>3, <2>4, <2>5, PushOneNotice
<1>5. CASE Push!MoveOn
  BY <1>5 DEF Push!MoveOn, PushInv
<1>6. CASE Push!Stop
  <2>1. \A n \in Notices :
           /\ notice'[n] \in PushNotice /\ notice'[n].attempt = notice[n].attempt
           /\ notice'[n].token = notice[n].token
           /\ notice'[n].pc \in {notice[n].pc, "done"}
    BY <1>0, <1>6 DEF Push!Stop, PushNotice
  <2>2. notice' \in [Notices -> PushNotice]
    BY <2>1, <1>6 DEF Push!Stop
  <2> QED
    BY <2>1, <2>2, <1>6 DEF Push!Stop, PushInv
<1>7. ASSUME NEW n \in Notices, Push!SendEnds(n)
      PROVE  PushInv'
  <2>1. /\ token' \in [Drivers -> 0 .. MaxToken] /\ UNCHANGED <<issued, dead, sends>>
        /\ \/ Push!Pc(n, "done")
           \/ notice[n].token \in dead /\ Push!Pc(n, "refused")
           \/ notice[n].attempt = 1 /\ Push!Pc(n, "pending")
    BY <1>7 DEF Push!SendEnds, PushInv
  <2> QED
    BY <2>1, <1>1 DEF Push!Pc
<1>8. ASSUME NEW n \in Notices, Push!ClearInvalidToken(n)
      PROVE  PushInv'
  <2>1. token' \in [Drivers -> 0 .. MaxToken]
    <3>1. token' = token \/ token' = [token EXCEPT ![notice[n].driver] = 0]
      BY <1>8 DEF Push!ClearInvalidToken
    <3>2. token \in [Drivers -> 0 .. MaxToken] /\ 0 \in 0 .. MaxToken
      BY DEF PushInv
    <3> QED
      BY <3>1, <3>2
  <2> QED
    BY <1>1, <1>8, <2>1 DEF Push!ClearInvalidToken, Push!Pc
<1>9. ASSUME NEW n \in Notices, Push!TimerFires(n)
      PROVE  PushInv'
  <2>1. notice[n].attempt = 1 /\ token' \in [Drivers -> 0 .. MaxToken]
    BY <1>9 DEF Push!TimerFires, PushInv
  <2> QED
    BY <1>1, <1>9, <2>1 DEF Push!TimerFires, Push!Pc
<1>10. ASSUME NEW n \in Notices, Push!StillNeedsNotification(n)
       PROVE  PushInv'
  <2>1. /\ notice[n].attempt = 1 /\ token' \in [Drivers -> 0 .. MaxToken]
        /\ UNCHANGED <<issued, dead, sends>>
        /\ Push!Pc(n, "needed") \/ Push!Pc(n, "done")
    BY <1>10 DEF Push!StillNeedsNotification, PushInv
  <2> QED
    BY <1>1, <2>1 DEF Push!Pc
<1>11. ASSUME NEW n \in Notices, Push!Retry(n)
       PROVE  PushInv'
  <2>1. PICK pc \in {"sending", "done"} :
           notice' = [notice EXCEPT ![n].pc = pc, ![n].attempt = 2]
    BY <1>11 DEF Push!Retry
  <2>2. sends[n] <= 1 /\ sends[n] \in Nat
    BY <1>0, <1>11 DEF Push!Retry, PushInv
  <2>3. PICK times \in {sends[n], sends[n] + 1} : sends' = [sends EXCEPT ![n] = times]
    BY <1>11 DEF Push!Retry, Push!Send, PushInv
  <2> DEFINE row == [pc |-> pc, driver |-> notice[n].driver, token |-> notice[n].token,
                     attempt |-> 2]
  <2>4. row \in PushNotice /\ row.pc = pc /\ row.attempt = 2
    BY <1>0 DEF PushNotice
  <2>5. notice' = [notice EXCEPT ![n] = row]
    <3>1. notice \in [Notices -> PushNotice]
      BY DEF PushInv
    <3>2. DOMAIN notice' = Notices /\ \A o \in Notices : o # n => notice'[o] = notice[o]
      BY <2>1, <3>1
    <3>3. notice'[n] = [notice[n] EXCEPT !.pc = pc, !.attempt = 2]
      BY <2>1, <3>1
    <3>4. notice' = [o \in Notices |-> notice'[o]]
      BY <2>1, <3>1
    <3> HIDE DEF row
    <3>5. [notice EXCEPT ![n] = row] = [o \in Notices |-> IF o = n THEN row ELSE notice[o]]
      BY <3>1
    <3>6. notice'[n] = row
      BY <1>0, <3>3 DEF row, PushNotice
    <3> QED
      BY <3>2, <3>4, <3>5, <3>6
  <2>6. token' \in [Drivers -> 0 .. MaxToken] /\ issued' = issued /\ dead' = dead
    BY <1>11 DEF Push!Retry, PushInv
  <2>7. times \in Nat /\ times <= 2
    BY <2>2, <2>3
  <2> HIDE DEF row
  <2> QED
    BY <2>3, <2>4, <2>5, <2>6, <2>7, PushOneNotice
<1>12. CASE UNCHANGED Push!vars
  BY <1>12 DEF Push!vars, PushInv
<1> QED
  BY <1>2, <1>3, <1>4, <1>5, <1>6, <1>7, <1>8, <1>9, <1>10, <1>11, <1>12 DEF Push!Next

\* A push is begun by an assignment or a retry, while the process runs, as a notice's
\* first or second.
LEMMA PushBeginsInTime ==
    ASSUME Push!PushAssumption, PushInv, Push!Next
    PROVE  \A n \in Notices : sends'[n] # sends[n] => ~stopped /\ sends'[n] <= 2
<1> SUFFICES ASSUME NEW n \in Notices, sends'[n] # sends[n]
             PROVE  ~stopped /\ sends'[n] <= 2
  OBVIOUS
<1>1. /\ \A o \in Notices : sends[o] \in Nat
      /\ \A o \in Notices : notice[o].pc = "new" => sends[o] = 0
      /\ \A o \in Notices : notice[o].pc = "needed" => sends[o] <= 1
  BY PushValues DEF PushInv
<1>2. ASSUME NEW o \in Notices, NEW d \in Drivers, Push!Assign(o, d)
      PROVE  ~stopped /\ sends'[n] <= 2
  BY <1>1, <1>2 DEF Push!Assign, Push!Send, PushInv
<1>3. ASSUME NEW o \in Notices, Push!Retry(o)
      PROVE  ~stopped /\ sends'[n] <= 2
  BY <1>1, <1>3 DEF Push!Retry, Push!Send, PushInv
<1> QED
  BY <1>2, <1>3 DEF Push!Next, Push!Register, Push!Unregister, Push!MoveOn, Push!Stop,
       Push!SendEnds, Push!ClearInvalidToken, Push!TimerFires, Push!StillNeedsNotification

\* Only a refusal clears a token, and only the token that it is about.
LEMMA RefusalsClearTheirToken ==
    ASSUME Push!PushAssumption, PushInv, Push!Next
    PROVE  \A d \in Drivers : token[d] # 0 /\ token'[d] = 0 => token[d] \in dead
<1> SUFFICES ASSUME NEW d \in Drivers, token[d] # 0, token'[d] = 0
             PROVE  token[d] \in dead
  OBVIOUS
<1>1. ASSUME NEW n \in Notices, Push!ClearInvalidToken(n)
      PROVE  token[d] \in dead
  BY <1>1 DEF Push!ClearInvalidToken, PushInv
<1>2. ASSUME NEW e \in Drivers, Push!Register(e)
      PROVE  token[d] \in dead
  BY <1>2 DEF Push!Register, PushInv
<1> QED
  BY <1>1, <1>2 DEF Push!Next, Push!Assign, Push!Unregister, Push!MoveOn, Push!Stop,
       Push!SendEnds, Push!Retry, Push!TimerFires, Push!StillNeedsNotification

-----------------------------------------------------------------------------
(***************************************************************************)
(* DispatcherBoards                                                        *)
(***************************************************************************)
BoardEdit ==
    [pc : {"closed", "open", "saving"}, version : 0 .. MaxSave,
     id : Standards \cup {CHOOSE e \in Standards : TRUE}, read : Boards!Board]

\* A save that was accepted has read the version it was shown, and the versions of the
\* board and of the note count the changes there were.
BoardsInv ==
    /\ board \in Boards!Board
    /\ edit \in [Administrators -> BoardEdit]
    /\ note \in [status : {"ACTIVE", "RESOLVED"}, version : 0 .. MaxSave]
    /\ shown \in [Administrators -> 0 .. MaxSave]
    /\ saves \in Seq(0 .. MaxSave) /\ toggles \in Seq(0 .. MaxSave)
    /\ handled \in Seq(Administrators)
    /\ help \in {"NONE", "OPEN", "HANDLED"}
    /\ Len(saves) = board.version
    /\ Len(toggles) = note.version
    /\ help # "HANDLED" => handled = <<>>
    /\ \A p \in Administrators :
          /\ edit[p].pc # "closed" => edit[p].id \in Standards
          /\ edit[p].pc = "saving" => edit[p].version = edit[p].read.version
    /\ Boards!NoBlindOverwrite

LEMMA BoardsBegins == ASSUME Boards!BoardsAssumption PROVE Boards!Init => BoardsInv
<1> SUFFICES ASSUME Boards!Init
             PROVE  BoardsInv
  OBVIOUS
<1> USE DEF Boards!Init, Boards!BoardsAssumption
<1>1. Boards!Blank \in Boards!Board /\ Boards!Blank.version = 0 /\ 0 \in 0 .. MaxSave
  BY DEF Boards!Blank, Boards!Board, Boards!Versions
<1>2. edit \in [Administrators -> BoardEdit] /\ \A p \in Administrators : edit[p].pc = "closed"
  BY <1>1 DEF BoardEdit
<1>3. /\ saves = <<>> /\ toggles = <<>> /\ handled = <<>>
      /\ Len(saves) = 0 /\ Len(toggles) = 0 /\ Len(handled) = 0
      /\ DOMAIN saves = {} /\ DOMAIN toggles = {}
  OBVIOUS
<1>4. Boards!NoBlindOverwrite
  BY <1>3 DEF Boards!NoBlindOverwrite
<1> QED
  BY <1>1, <1>2, <1>3, <1>4 DEF BoardsInv

\* A log in which every change was based on the one before goes on being one.
LEMMA LogGoesOn ==
    ASSUME NEW bound \in Nat, NEW log \in Seq(0 .. bound), NEW v \in 0 .. bound, v = Len(log),
           \A i \in DOMAIN log : log[i] = i - 1
    PROVE  /\ Append(log, v) \in Seq(0 .. bound) /\ Len(Append(log, v)) = v + 1
           /\ \A i \in DOMAIN Append(log, v) : Append(log, v)[i] = i - 1
OBVIOUS

LEMMA BoardsGoesOn ==
    ASSUME Boards!BoardsAssumption, BoardsInv, [Boards!Next]_Boards!vars
    PROVE  BoardsInv'
<1> USE DEF Boards!BoardsAssumption
<1>1. /\ board \in Boards!Board /\ board.version \in 0 .. MaxSave
      /\ \A p \in Administrators :
            /\ edit[p] \in BoardEdit /\ edit[p].read \in Boards!Board
            /\ edit[p].version \in 0 .. MaxSave /\ edit[p].read.version \in 0 .. MaxSave
            /\ shown[p] \in 0 .. MaxSave
      /\ note.version \in 0 .. MaxSave
  BY DEF BoardsInv, BoardEdit, Boards!Board, Boards!Versions
\* A step of one administrator's edit that saves nothing.
<1>2. ASSUME NEW p \in Administrators, NEW row \in BoardEdit,
             edit' = [edit EXCEPT ![p] = row],
             row.pc # "closed" => row.id \in Standards,
             row.pc = "saving" => row.version = row.read.version
      PROVE  /\ edit' \in [Administrators -> BoardEdit]
             /\ \A q \in Administrators :
                   /\ edit'[q].pc # "closed" => edit'[q].id \in Standards
                   /\ edit'[q].pc = "saving" => edit'[q].version = edit'[q].read.version
  BY <1>2 DEF BoardsInv
<1>3. ASSUME NEW p \in Administrators, NEW e \in Standards, Boards!OpenEntry(p, e)
      PROVE  BoardsInv'
  <2> DEFINE row == [pc |-> "open", version |-> board.version, id |-> e,
                     read |-> Boards!Blank]
  <2>1. row \in BoardEdit /\ row.pc = "open" /\ row.id \in Standards
    BY <1>1 DEF BoardEdit, Boards!Blank, Boards!Board, Boards!Versions
  <2>2. edit' = [edit EXCEPT ![p] = row]
    BY <1>3 DEF Boards!OpenEntry
  <2> HIDE DEF row
  <2>3. /\ edit' \in [Administrators -> BoardEdit]
        /\ \A q \in Administrators :
              /\ edit'[q].pc # "closed" => edit'[q].id \in Standards
              /\ edit'[q].pc = "saving" => edit'[q].version = edit'[q].read.version
    BY <1>2, <2>1, <2>2
  <2> QED
    BY <1>3, <2>3 DEF Boards!OpenEntry, Boards!pinboard, Boards!checkIn, BoardsInv,
                      Boards!NoBlindOverwrite
<1>4. ASSUME NEW p \in Administrators, Boards!readStandards(p)
      PROVE  BoardsInv'
  <2>1. PICK pc \in {"saving", "closed"} :
           /\ edit' = [edit EXCEPT ![p].pc = pc, ![p].read = board]
           /\ pc = "saving" => board.version = edit[p].version
    BY <1>4 DEF Boards!readStandards
  <2> DEFINE row == [pc |-> pc, version |-> edit[p].version, id |-> edit[p].id,
                     read |-> board]
  <2>2. /\ row \in BoardEdit /\ row.id = edit[p].id /\ row.pc = pc
        /\ row.version = edit[p].version /\ row.read = board
    BY <1>1 DEF BoardEdit
  <2>3. edit[p].id \in Standards
    BY <1>4 DEF Boards!readStandards, BoardsInv
  <2>4. edit' = [edit EXCEPT ![p] = row]
    <3>1. edit \in [Administrators -> BoardEdit]
      BY DEF BoardsInv
    <3>2. DOMAIN edit' = Administrators /\ \A q \in Administrators : q # p => edit'[q] = edit[q]
      BY <2>1, <3>1
    <3>3. edit' = [q \in Administrators |-> edit'[q]]
      BY <2>1, <3>1
    <3>4. edit'[p] = [edit[p] EXCEPT !.pc = pc, !.read = board]
      BY <2>1, <3>1
    <3>5. edit'[p] = row
      BY <1>1, <3>4 DEF BoardEdit
    <3> HIDE DEF row
    <3>6. [edit EXCEPT ![p] = row] = [q \in Administrators |-> IF q = p THEN row ELSE edit[q]]
      BY <3>1
    <3> QED
      BY <3>2, <3>3, <3>5, <3>6
  <2> HIDE DEF row
  <2>5. row.pc = "saving" => row.version = row.read.version
    BY <2>1, <2>2
  <2>6. /\ edit' \in [Administrators -> BoardEdit]
        /\ \A q \in Administrators :
              /\ edit'[q].pc # "closed" => edit'[q].id \in Standards
              /\ edit'[q].pc = "saving" => edit'[q].version = edit'[q].read.version
    BY <1>2, <2>2, <2>3, <2>4, <2>5
  <2> QED
    BY <1>4, <2>6 DEF Boards!readStandards, Boards!pinboard, Boards!checkIn, BoardsInv,
                      Boards!NoBlindOverwrite
<1>5. ASSUME NEW p \in Administrators, Boards!saveStandard(p)
      PROVE  BoardsInv'
  <2>1. PICK pc \in {"closed", "open"} : edit' = [edit EXCEPT ![p].pc = pc]
    BY <1>5 DEF Boards!saveStandard, Boards!Answered
  <2> DEFINE row == [pc |-> pc, version |-> edit[p].version, id |-> edit[p].id,
                     read |-> edit[p].read]
  <2>2. row \in BoardEdit /\ row.id = edit[p].id /\ row.pc # "saving"
    BY <1>1 DEF BoardEdit
  <2>3. edit[p].id \in Standards /\ edit[p].version = edit[p].read.version
    BY <1>5 DEF Boards!saveStandard, BoardsInv
  <2>4. edit' = [edit EXCEPT ![p] = row]
    <3>1. edit \in [Administrators -> BoardEdit]
      BY DEF BoardsInv
    <3>2. edit' = [edit EXCEPT ![p] = [edit[p] EXCEPT !.pc = pc]]
      BY <2>1, <3>1
    <3>3. [edit[p] EXCEPT !.pc = pc] = row
      BY <1>1 DEF BoardEdit
    <3> QED
      BY <3>2, <3>3
  <2> HIDE DEF row
  <2>5. /\ edit' \in [Administrators -> BoardEdit]
        /\ \A q \in Administrators :
              /\ edit'[q].pc # "closed" => edit'[q].id \in Standards
              /\ edit'[q].pc = "saving" => edit'[q].version = edit'[q].read.version
    BY <1>2, <2>2, <2>3, <2>4
  <2>6. UNCHANGED <<note, shown, toggles, help, handled>>
    BY <1>5 DEF Boards!saveStandard, Boards!pinboard, Boards!checkIn
  <2>7. CASE board = edit[p].read
    <3>1. /\ board' = [version |-> board.version + 1,
                       entries |-> board.entries \cup {edit[p].id}]
          /\ saves' = Append(saves, board.version)
          /\ board.version < MaxSave
      BY <1>5, <2>3, <2>7 DEF Boards!saveStandard, Boards!Saved
    <3>2. board' \in Boards!Board /\ board'.version = board.version + 1
      BY <1>1, <2>3, <3>1 DEF Boards!Board, Boards!Versions
    <3>3. /\ saves \in Seq(0 .. MaxSave) /\ Len(saves) = board.version
          /\ \A i \in DOMAIN saves : saves[i] = i - 1
      BY DEF BoardsInv, Boards!NoBlindOverwrite
    <3>4. /\ saves' \in Seq(0 .. MaxSave) /\ Len(saves') = board'.version
          /\ \A i \in DOMAIN saves' : saves'[i] = i - 1
      BY <1>1, <3>1, <3>2, <3>3, LogGoesOn
    <3> QED
      BY <2>5, <2>6, <3>2, <3>4 DEF BoardsInv, Boards!NoBlindOverwrite
  <2>8. CASE board # edit[p].read
    <3>1. UNCHANGED <<board, saves>>
      BY <1>5, <2>8 DEF Boards!saveStandard
    <3> QED
      BY <2>5, <2>6, <3>1 DEF BoardsInv, Boards!NoBlindOverwrite
  <2> QED
    BY <2>7, <2>8
<1>6. ASSUME NEW p \in Administrators, Boards!Refresh(p)
      PROVE  BoardsInv'
  BY <1>1, <1>6 DEF Boards!Refresh, Boards!standards, Boards!checkIn, BoardsInv,
                    Boards!NoBlindOverwrite
<1>7. ASSUME NEW p \in Administrators, Boards!markHandled(p)
      PROVE  BoardsInv'
  <2>1. handled = <<>> /\ handled' = Append(handled, p) /\ help' = "HANDLED"
    BY <1>7 DEF Boards!markHandled, BoardsInv
  <2>2. handled' \in Seq(Administrators) /\ Len(handled') = 1
    BY <2>1
  <2> QED
    BY <1>7, <2>1, <2>2 DEF Boards!markHandled, Boards!standards, Boards!pinboard, BoardsInv,
                            Boards!NoBlindOverwrite
<1>8. ASSUME NEW p \in Administrators, NEW status \in {"ACTIVE", "RESOLVED"},
             Boards!setPinboardNoteStatus(p, status)
      PROVE  BoardsInv'
  <2>1. /\ note.version = shown[p] /\ note.version < MaxSave
        /\ note' = [status |-> Boards!Other(note.status), version |-> note.version + 1]
        /\ toggles' = Append(toggles, note.version)
        /\ UNCHANGED <<board, edit, saves, help, handled>>
    BY <1>8 DEF Boards!setPinboardNoteStatus, Boards!Toggled, Boards!standards, Boards!checkIn
  <2>2. shown' \in [Administrators -> 0 .. MaxSave]
    <3>1. shown' = [shown EXCEPT ![p] = note.version + 1] \/ shown' = shown
      BY <1>8 DEF Boards!setPinboardNoteStatus, Boards!Toggled
    <3>2. note.version + 1 \in 0 .. MaxSave /\ shown \in [Administrators -> 0 .. MaxSave]
      BY <1>1, <2>1 DEF BoardsInv
    <3> QED
      BY <3>1, <3>2
  <2>3. /\ note' \in [status : {"ACTIVE", "RESOLVED"}, version : 0 .. MaxSave]
        /\ note'.version = note.version + 1
    BY <1>1, <2>1 DEF Boards!Other
  <2>4. /\ toggles \in Seq(0 .. MaxSave) /\ Len(toggles) = note.version
        /\ \A i \in DOMAIN toggles : toggles[i] = i - 1
    BY DEF BoardsInv, Boards!NoBlindOverwrite
  <2>5. /\ toggles' \in Seq(0 .. MaxSave) /\ Len(toggles') = note'.version
        /\ \A i \in DOMAIN toggles' : toggles'[i] = i - 1
    BY <1>1, <2>1, <2>3, <2>4, LogGoesOn
  <2> QED
    BY <2>1, <2>2, <2>3, <2>5 DEF BoardsInv, Boards!NoBlindOverwrite
<1>9. CASE Boards!requestHelp
  BY <1>9 DEF Boards!requestHelp, Boards!standards, Boards!pinboard, BoardsInv,
              Boards!NoBlindOverwrite
<1>10. CASE UNCHANGED Boards!vars
  BY <1>10 DEF Boards!vars, BoardsInv, Boards!NoBlindOverwrite
<1> QED
  BY <1>3, <1>4, <1>5, <1>6, <1>7, <1>8, <1>9, <1>10 DEF Boards!Next

-----------------------------------------------------------------------------
(***************************************************************************)
(* StaffAccounts                                                           *)
(***************************************************************************)

\* Row b is what row a has become: while no version grew, no column that it guards did.
Later(a, b) ==
    /\ a.authVersion <= b.authVersion
    /\ a.staffRevision <= b.staffRevision
    /\ a.authVersion = b.authVersion =>
          a.password = b.password /\ a.role = b.role /\ a.email = b.email
    /\ a.staffRevision = b.staffRevision => StaffRows!Shown(a) = StaffRows!Shown(b)

\* What a token says of the account it was signed for.
Vouches(s, row) ==
    /\ s.epoch = s.authVersion
    /\ s.authVersion <= row.authVersion
    /\ s.authVersion = row.authVersion =>
          s.password = row.password /\ s.role = row.role /\ s.email = row.email

StaffRequest ==
    [kind : StaffRows!Kinds, pc : {"idle", "check", "read", "write"},
     user : Staff \cup {NoStaff}, snap : StaffRows!Account \cup {StaffRows!AnyAccount},
     epoch : Nat]

StaffTyped ==
    /\ account \in [Staff -> StaffRows!Account]
    /\ sessions \subseteq StaffRows!Session
    /\ resets \subseteq StaffRows!Reset
    /\ changes \subseteq StaffRows!Reset
    /\ epoch \in [Staff -> Nat]
    /\ req \in [StaffRequests -> StaffRequest]

\* What a request has read is an earlier row, of an account it may go on with.
RequestHolds(q) ==
    IF q.pc = "idle" THEN q.kind = "none"
    ELSE /\ q.user \in Staff
         /\ q.snap \in StaffRows!Account
         /\ q.epoch = q.snap.authVersion
         /\ Later(q.snap, account[q.user])
         /\ q.kind = "changePassword" =>
               [user |-> q.user, authVersion |-> q.snap.authVersion] \in resets

\* authVersion counts the times the access was taken away, and a change of password
\* makes a new version.
StaffInv ==
    /\ StaffTyped
    /\ \A u \in Staff : epoch[u] = account[u].authVersion
    /\ \A s \in sessions : Vouches(s, account[s.user])
    /\ \A c \in changes : c.authVersion < account[c.user].authVersion
    /\ \A r \in StaffRequests : RequestHolds(req[r])

\* A step changes a password for a temporary one, or with a credential of the version
\* that it ends.
PasswordRule ==
    \A u \in Staff : account'[u].password # account[u].password =>
       \/ account'[u].passwordChangeRequired
       \/ /\ [user |-> u, authVersion |-> account[u].authVersion] \in resets
          /\ [user |-> u, authVersion |-> account[u].authVersion] \in changes' \ changes

\* The columns of a row.
LEMMA Columns ==
    ASSUME NEW a \in StaffRows!Account
    PROVE  /\ a.role \in StaffRows!Roles /\ a.email \in Nat /\ a.profile \in Nat
           /\ a.password \in Passwords /\ a.isActive \in BOOLEAN
           /\ a.passwordChangeRequired \in BOOLEAN /\ a.isVisibleInDispatch \in BOOLEAN
           /\ a.isOnline \in BOOLEAN /\ a.forceLogoutAt \in BOOLEAN
           /\ a.authVersion \in Nat /\ a.staffRevision \in Nat
BY DEF StaffRows!Account

LEMMA LaterThanLater ==
    ASSUME NEW a \in StaffRows!Account, NEW b \in StaffRows!Account,
           NEW c \in StaffRows!Account, Later(a, b), Later(b, c)
    PROVE  Later(a, c)
<1>1. /\ a.authVersion \in Nat /\ b.authVersion \in Nat /\ c.authVersion \in Nat
      /\ a.staffRevision \in Nat /\ b.staffRevision \in Nat /\ c.staffRevision \in Nat
  BY Columns
<1> QED
  BY <1>1 DEF Later

LEMMA LaterThanItself == ASSUME NEW a \in StaffRows!Account PROVE Later(a, a)
BY Columns DEF Later

\* One row is written, and the sessions are revoked when its version grows.
LEMMA RowWritten ==
    ASSUME StaffTyped, \A v \in Staff : epoch[v] = account[v].authVersion,
           NEW u \in Staff, NEW row \in StaffRows!Account, Later(account[u], row),
           account' = [account EXCEPT ![u] = row],
           \/ row.authVersion = account[u].authVersion /\ epoch' = epoch
           \/ row.authVersion = account[u].authVersion + 1 /\ StaffRows!Revoke(u)
    PROVE  /\ account' \in [Staff -> StaffRows!Account] /\ epoch' \in [Staff -> Nat]
           /\ \A v \in Staff : /\ Later(account[v], account'[v])
                               /\ epoch'[v] = account'[v].authVersion
<1>1. /\ account' \in [Staff -> StaffRows!Account] /\ account'[u] = row
      /\ \A v \in Staff : v # u => account'[v] = account[v]
  BY DEF StaffTyped
<1>2. \A v \in Staff : account[v] \in StaffRows!Account /\ account[v].authVersion \in Nat
  BY Columns DEF StaffTyped
<1>3. \A v \in Staff : Later(account[v], account'[v])
  BY <1>1, <1>2, LaterThanItself
<1>4. CASE row.authVersion = account[u].authVersion /\ epoch' = epoch
  BY <1>1, <1>3, <1>4 DEF StaffTyped
<1>5. CASE row.authVersion = account[u].authVersion + 1 /\ StaffRows!Revoke(u)
  <2>1. /\ epoch' \in [Staff -> Nat] /\ epoch'[u] = epoch[u] + 1
        /\ \A v \in Staff : v # u => epoch'[v] = epoch[v]
    BY <1>5 DEF StaffRows!Revoke, StaffTyped
  <2> QED
    BY <1>1, <1>2, <1>3, <1>5, <2>1
<1> QED
  BY <1>4, <1>5

\* What is enough for a step to keep the invariant: rows become later ones, new tokens
\* and changes fit the rows, and a request ends or is one that the rows allow.
LEMMA StaffStep ==
    ASSUME StaffInv,
           account' \in [Staff -> StaffRows!Account], epoch' \in [Staff -> Nat],
           \A v \in Staff : Later(account[v], account'[v]) /\ epoch'[v] = account'[v].authVersion,
           sessions' \subseteq StaffRows!Session, resets' \subseteq StaffRows!Reset,
           changes' \subseteq StaffRows!Reset, resets \subseteq resets',
           \A s \in sessions' \ sessions : Vouches(s, account'[s.user]),
           \A c \in changes' \ changes : c.authVersion < account'[c.user].authVersion,
           req' \in [StaffRequests -> StaffRequest],
           \A r \in StaffRequests : req'[r] = req[r] \/ RequestHolds(req[r])'
    PROVE  StaffInv'
<1>1. \A v \in Staff : /\ account[v] \in StaffRows!Account /\ account'[v] \in StaffRows!Account
                       /\ account[v].authVersion \in Nat /\ account'[v].authVersion \in Nat
  BY Columns DEF StaffInv, StaffTyped
<1>2. ASSUME NEW s \in sessions
      PROVE  Vouches(s, account'[s.user])
  <2>1. s.user \in Staff /\ s.authVersion \in Nat
    BY DEF StaffInv, StaffTyped, StaffRows!Session
  <2>2. Vouches(s, account[s.user])
    BY DEF StaffInv
  <2> QED
    BY <1>1, <2>1, <2>2 DEF Vouches, Later
<1>3. ASSUME NEW c \in changes
      PROVE  c.authVersion < account'[c.user].authVersion
  <2>1. c.user \in Staff /\ c.authVersion \in Nat
    BY DEF StaffInv, StaffTyped, StaffRows!Reset
  <2> QED
    BY <1>1, <2>1 DEF StaffInv, Later
<1>4. ASSUME NEW r \in StaffRequests
      PROVE  RequestHolds(req[r])'
  <2>1. CASE req'[r] = req[r]
    <3>1. RequestHolds(req[r])
      BY DEF StaffInv
    <3>2. CASE req[r].pc = "idle"
      BY <2>1, <3>1, <3>2 DEF RequestHolds
    <3>3. CASE req[r].pc # "idle"
      <4>1. req[r].user \in Staff /\ req[r].snap \in StaffRows!Account
        BY <3>1, <3>3 DEF RequestHolds
      <4>2. Later(req[r].snap, account'[req[r].user])
        BY <1>1, <3>1, <3>3, <4>1, LaterThanLater DEF RequestHolds
      <4> QED
        BY <2>1, <3>1, <3>3, <4>1, <4>2 DEF RequestHolds
    <3> QED
      BY <3>2, <3>3
  <2> QED
    BY <2>1
<1> QED
  BY <1>2, <1>3, <1>4 DEF StaffInv, StaffTyped

LEMMA StaffBegins == ASSUME StaffRows!StaffAssumption PROVE StaffRows!Init => StaffInv
<1> SUFFICES ASSUME StaffRows!Init
             PROVE  StaffInv
  OBVIOUS
<1> USE DEF StaffRows!Init
<1>1. ASSUME NEW a \in StaffRows!NewAccounts
      PROVE  a \in StaffRows!Account
  <2>1. /\ a.role \in StaffRows!Roles /\ a.email \in Nat /\ a.profile \in Nat
        /\ a.password \in Passwords /\ a.authVersion \in Nat /\ a.staffRevision \in Nat
    BY DEF StaffRows!NewAccounts
  <2>2. /\ a.isActive \in {TRUE} /\ a.passwordChangeRequired \in {FALSE}
        /\ a.isVisibleInDispatch \in {TRUE} /\ a.isOnline \in {FALSE}
        /\ a.forceLogoutAt \in {FALSE}
    BY Zenon DEF StaffRows!NewAccounts
  <2>3. {TRUE} \subseteq BOOLEAN /\ {FALSE} \subseteq BOOLEAN
    OBVIOUS
  <2>4. /\ a.isActive \in BOOLEAN /\ a.passwordChangeRequired \in BOOLEAN
        /\ a.isVisibleInDispatch \in BOOLEAN /\ a.isOnline \in BOOLEAN
        /\ a.forceLogoutAt \in BOOLEAN
    BY <2>2, <2>3, Zenon
  <2>5. a = [role |-> a.role, email |-> a.email, profile |-> a.profile,
             password |-> a.password, isActive |-> a.isActive,
             passwordChangeRequired |-> a.passwordChangeRequired,
             isVisibleInDispatch |-> a.isVisibleInDispatch, isOnline |-> a.isOnline,
             forceLogoutAt |-> a.forceLogoutAt, authVersion |-> a.authVersion,
             staffRevision |-> a.staffRevision]
    BY DEF StaffRows!NewAccounts
  <2> QED
    BY <2>1, <2>4, <2>5 DEF StaffRows!Account
<1>2. \A u \in Staff : account[u] \in StaffRows!NewAccounts
  OBVIOUS
<1>3. /\ account \in [Staff -> StaffRows!Account]
      /\ \A u \in Staff : account[u].authVersion = 0
  <2>1. \A row \in StaffRows!NewAccounts : row.authVersion = 0
    BY DEF StaffRows!NewAccounts
  <2>2. account \in [Staff -> StaffRows!NewAccounts]
    OBVIOUS
  <2>3. account \in [Staff -> StaffRows!Account]
    BY ONLY <1>1, <2>2
  <2> QED
    BY ONLY <1>2, <2>1, <2>3
<1>4. StaffRows!Idle \in StaffRequest /\ StaffRows!Idle.pc = "idle" /\ StaffRows!Idle.kind = "none"
  BY DEF StaffRows!Idle, StaffRequest, StaffRows!Kinds
<1>5. StaffTyped
  BY <1>3, <1>4 DEF StaffTyped
<1> QED
  BY <1>3, <1>4, <1>5 DEF StaffInv, RequestHolds

\* A request that ends leaves the others as they were.
LEMMA Responded ==
    ASSUME StaffInv, NEW r \in StaffRequests, StaffRows!Respond(r)
    PROVE  /\ req' \in [StaffRequests -> StaffRequest]
           /\ \A o \in StaffRequests : req'[o] = req[o] \/ RequestHolds(req[o])'
<1>1. StaffRows!Idle \in StaffRequest /\ StaffRows!Idle.pc = "idle" /\ StaffRows!Idle.kind = "none"
  BY DEF StaffRows!Idle, StaffRequest, StaffRows!Kinds
<1>2. /\ req' \in [StaffRequests -> StaffRequest] /\ req'[r] = StaffRows!Idle
      /\ \A o \in StaffRequests : o # r => req'[o] = req[o]
  BY <1>1 DEF StaffRows!Respond, StaffInv, StaffTyped
<1> QED
  BY <1>1, <1>2 DEF RequestHolds

\* One row is written and the request ends: what it signed and changed fits the row.
LEMMA RequestWrites ==
    ASSUME StaffInv, NEW r \in StaffRequests, NEW u \in Staff,
           NEW row \in StaffRows!Account, Later(account[u], row),
           account' = [account EXCEPT ![u] = row],
           \/ row.authVersion = account[u].authVersion /\ epoch' = epoch
           \/ row.authVersion = account[u].authVersion + 1 /\ StaffRows!Revoke(u),
           sessions' \subseteq StaffRows!Session, resets' = resets,
           changes' \subseteq StaffRows!Reset,
           \A s \in sessions' \ sessions : s.user = u /\ Vouches(s, row),
           \A c \in changes' \ changes : c.user = u /\ c.authVersion < row.authVersion,
           StaffRows!Respond(r) \/ req' = req
    PROVE  StaffInv'
<1>1. /\ account' \in [Staff -> StaffRows!Account] /\ epoch' \in [Staff -> Nat]
      /\ \A v \in Staff : /\ Later(account[v], account'[v])
                          /\ epoch'[v] = account'[v].authVersion
  BY RowWritten DEF StaffInv
<1>2. account'[u] = row
  BY DEF StaffInv, StaffTyped
<1>3. /\ \A s \in sessions' \ sessions : Vouches(s, account'[s.user])
      /\ \A c \in changes' \ changes : c.authVersion < account'[c.user].authVersion
  BY <1>2
<1>4. /\ req' \in [StaffRequests -> StaffRequest]
      /\ \A o \in StaffRequests : req'[o] = req[o] \/ RequestHolds(req[o])'
  BY Responded DEF StaffInv, StaffTyped
<1>5. resets' \subseteq StaffRows!Reset /\ resets \subseteq resets'
  BY DEF StaffInv, StaffTyped
<1> QED
  BY <1>1, <1>3, <1>4, <1>5, StaffStep

\* A request begins with the row as it is.
LEMMA RequestStarts ==
    ASSUME StaffInv, NEW r \in StaffRequests, NEW u \in Staff,
           NEW kind \in StaffRows!Kinds, NEW pc \in {"check", "read", "write"},
           StaffRows!Start(r, kind, pc, u),
           kind = "changePassword" =>
               [user |-> u, authVersion |-> account[u].authVersion] \in resets,
           UNCHANGED <<account, sessions, resets, changes, epoch>>
    PROVE  StaffInv'
<1> DEFINE row == [kind |-> kind, pc |-> pc, user |-> u, snap |-> account[u],
                   epoch |-> epoch[u]]
<1>1. /\ account[u] \in StaffRows!Account /\ epoch[u] = account[u].authVersion /\ epoch[u] \in Nat
      /\ Later(account[u], account[u])
  BY LaterThanItself DEF StaffInv, StaffTyped
<1>2. row \in StaffRequest /\ RequestHolds(row)
  BY <1>1 DEF StaffRequest, RequestHolds
<1>3. req' = [req EXCEPT ![r] = row]
  BY DEF StaffRows!Start
<1> HIDE DEF row
<1>4. /\ req' \in [StaffRequests -> StaffRequest] /\ req'[r] = row
      /\ \A o \in StaffRequests : o # r => req'[o] = req[o]
  BY <1>2, <1>3 DEF StaffInv, StaffTyped
<1>5. \A o \in StaffRequests : RequestHolds(req[o])'
  BY <1>2, <1>4 DEF RequestHolds, StaffInv
<1> QED
  BY <1>4, <1>5 DEF StaffInv, StaffTyped

LEMMA RowBumped ==
    ASSUME NEW a \in StaffRows!Account
    PROVE  LET row == StaffRows!Bumped(a)
           IN  /\ row \in StaffRows!Account
               /\ row.authVersion = a.authVersion + 1
               /\ row.staffRevision = a.staffRevision + 1 /\ row.password = a.password
<1>1. ASSUME NEW n \in Nat, NEW m \in Nat
      PROVE  LET row == [a EXCEPT !.authVersion = n, !.staffRevision = m]
             IN  /\ row \in StaffRows!Account /\ row.authVersion = n
                 /\ row.staffRevision = m /\ row.password = a.password
  BY DEF StaffRows!Account
<1>2. a.authVersion + 1 \in Nat /\ a.staffRevision + 1 \in Nat
  BY Columns
<1> QED
  BY <1>1, <1>2 DEF StaffRows!Bumped

\* The rows that the handlers write.
LEMMA RowsBecomeLater ==
    ASSUME NEW a \in StaffRows!Account
    PROVE  /\ \A on, out \in BOOLEAN :
                 LET row == [a EXCEPT !.forceLogoutAt = out, !.isOnline = on]
                 IN  /\ row \in StaffRows!Account /\ Later(a, row)
                     /\ row.authVersion = a.authVersion
                     /\ row.password = a.password /\ row.role = a.role /\ row.email = a.email
           /\ \A on \in BOOLEAN :
                 LET row == [a EXCEPT !.isOnline = on]
                 IN  /\ row \in StaffRows!Account /\ Later(a, row)
                     /\ row.authVersion = a.authVersion /\ row.password = a.password
           /\ LET row == StaffRows!ForceLogout(a)
              IN  /\ row \in StaffRows!Account /\ Later(a, row)
                  /\ row.authVersion = a.authVersion + 1
                  /\ row.staffRevision = a.staffRevision + 1 /\ row.password = a.password
<1>1. /\ a.role \in StaffRows!Roles /\ a.email \in Nat /\ a.profile \in Nat
      /\ a.password \in Passwords /\ a.isActive \in BOOLEAN
      /\ a.passwordChangeRequired \in BOOLEAN /\ a.isVisibleInDispatch \in BOOLEAN
      /\ a.isOnline \in BOOLEAN /\ a.forceLogoutAt \in BOOLEAN
      /\ a.authVersion \in Nat /\ a.staffRevision \in Nat
  BY Columns
<1>2. ASSUME NEW on \in BOOLEAN, NEW out \in BOOLEAN
      PROVE  LET row == [a EXCEPT !.forceLogoutAt = out, !.isOnline = on]
             IN  /\ row \in StaffRows!Account /\ Later(a, row)
                 /\ row.authVersion = a.authVersion
                 /\ row.password = a.password /\ row.role = a.role /\ row.email = a.email
  <2> DEFINE row == [a EXCEPT !.forceLogoutAt = out, !.isOnline = on]
  <2>1. row \in StaffRows!Account
    BY DEF StaffRows!Account
  <2>2. /\ row.authVersion = a.authVersion /\ row.staffRevision = a.staffRevision
        /\ row.password = a.password /\ row.role = a.role /\ row.email = a.email
        /\ row.profile = a.profile /\ row.isActive = a.isActive
        /\ row.passwordChangeRequired = a.passwordChangeRequired
        /\ row.isVisibleInDispatch = a.isVisibleInDispatch
    BY DEF StaffRows!Account
  <2> HIDE DEF row
  <2>3. Later(a, row)
    BY <1>1, <2>2 DEF Later, StaffRows!Shown
  <2> QED
    BY <2>1, <2>2, <2>3 DEF row
<1>3. ASSUME NEW on \in BOOLEAN
      PROVE  LET row == [a EXCEPT !.isOnline = on]
             IN  /\ row \in StaffRows!Account /\ Later(a, row)
                 /\ row.authVersion = a.authVersion /\ row.password = a.password
  <2> DEFINE row == [a EXCEPT !.isOnline = on]
  <2>1. row \in StaffRows!Account
    BY DEF StaffRows!Account
  <2>2. /\ row.authVersion = a.authVersion /\ row.staffRevision = a.staffRevision
        /\ row.password = a.password /\ row.role = a.role /\ row.email = a.email
        /\ row.profile = a.profile /\ row.isActive = a.isActive
        /\ row.passwordChangeRequired = a.passwordChangeRequired
        /\ row.isVisibleInDispatch = a.isVisibleInDispatch
    BY DEF StaffRows!Account
  <2> HIDE DEF row
  <2>3. Later(a, row)
    BY <1>1, <2>2 DEF Later, StaffRows!Shown
  <2> QED
    BY <2>1, <2>2, <2>3 DEF row
<1>4. LET row == StaffRows!ForceLogout(a)
      IN  /\ row \in StaffRows!Account /\ Later(a, row)
          /\ row.authVersion = a.authVersion + 1
          /\ row.staffRevision = a.staffRevision + 1 /\ row.password = a.password
  <2> DEFINE next == StaffRows!Bumped(a)
  <2>1. /\ next \in StaffRows!Account
        /\ next.authVersion = a.authVersion + 1 /\ next.staffRevision = a.staffRevision + 1
        /\ next.password = a.password
    BY RowBumped
  <2>2. StaffRows!ForceLogout(a) = [next EXCEPT !.isOnline = FALSE, !.forceLogoutAt = TRUE]
    BY DEF StaffRows!ForceLogout
  <2> HIDE DEF next
  <2> DEFINE row == [next EXCEPT !.isOnline = FALSE, !.forceLogoutAt = TRUE]
  <2>3. /\ row \in StaffRows!Account
        /\ row.authVersion = a.authVersion + 1 /\ row.staffRevision = a.staffRevision + 1
        /\ row.password = a.password
    BY <2>1 DEF StaffRows!Account
  <2> HIDE DEF row
  <2>4. Later(a, row)
    BY <1>1, <2>3 DEF Later
  <2> QED
    BY <2>2, <2>3, <2>4 DEF row
<1> QED
  BY <1>2, <1>3, <1>4

\* A row with a new revision is a later one when it has a new version, or the version
\* and the columns that it guards.
LEMMA NewRevisionIsLater ==
    ASSUME NEW a \in StaffRows!Account, NEW b \in StaffRows!Account,
           b.staffRevision = a.staffRevision + 1,
           \/ b.authVersion = a.authVersion + 1
           \/ /\ b.authVersion = a.authVersion
              /\ b.password = a.password /\ b.role = a.role /\ b.email = a.email
    PROVE  Later(a, b)
<1>1. a.authVersion \in Nat /\ a.staffRevision \in Nat
  BY Columns
<1> QED
  BY <1>1 DEF Later

LEMMA RowSignedOut ==
    ASSUME NEW a \in StaffRows!Account
    PROVE  LET row == StaffRows!SignedOut(a)
           IN  /\ row \in StaffRows!Account
               /\ row.authVersion = a.authVersion + 1
               /\ row.staffRevision = a.staffRevision
               /\ row.password = a.password
               /\ row.passwordChangeRequired = a.passwordChangeRequired
<1>1. ASSUME NEW n \in Nat
      PROVE  LET row == [a EXCEPT !.authVersion = n, !.isOnline = FALSE, !.forceLogoutAt = FALSE]
             IN  /\ row \in StaffRows!Account /\ row.authVersion = n
                 /\ row.staffRevision = a.staffRevision
                 /\ row.password = a.password
                 /\ row.passwordChangeRequired = a.passwordChangeRequired
  BY DEF StaffRows!Account
<1>2. a.authVersion + 1 \in Nat
  BY Columns
<1> QED
  BY <1>1, <1>2 DEF StaffRows!SignedOut

\* The rows of the staff page: a profile, a status, a temporary password.
LEMMA RowOfProfile ==
    ASSUME NEW a \in StaffRows!Account, NEW role \in StaffRows!Roles, NEW email \in Nat
    PROVE  LET row == StaffRows!changeStaffProfile(a, role, email)
           IN  /\ row \in StaffRows!Account /\ Later(a, row) /\ row.password = a.password
               /\ row.authVersion = IF role # a.role \/ email # a.email
                                    THEN a.authVersion + 1 ELSE a.authVersion
<1>1. ASSUME NEW n \in Nat, NEW m \in Nat
      PROVE  LET row == [a EXCEPT !.role = role, !.email = email, !.profile = n,
                                  !.staffRevision = m]
             IN  /\ row \in StaffRows!Account /\ row.authVersion = a.authVersion
                 /\ row.staffRevision = m /\ row.password = a.password
                 /\ row.role = role /\ row.email = email
  BY DEF StaffRows!Account
<1>2. a.profile + 1 \in Nat /\ a.staffRevision + 1 \in Nat
  BY Columns
<1> DEFINE new == [a EXCEPT !.role = role, !.email = email, !.profile = @ + 1,
                            !.staffRevision = @ + 1]
<1>3. /\ new \in StaffRows!Account /\ new.authVersion = a.authVersion
      /\ new.staffRevision = a.staffRevision + 1 /\ new.password = a.password
      /\ new.role = role /\ new.email = email
  BY <1>1, <1>2
<1>4. StaffRows!changeStaffProfile(a, role, email) =
         IF role # a.role \/ email # a.email THEN StaffRows!SignedOut(new) ELSE new
  BY DEF StaffRows!changeStaffProfile
<1> HIDE DEF new
<1>5. CASE role # a.role \/ email # a.email
  <2>1. /\ StaffRows!SignedOut(new) \in StaffRows!Account
        /\ StaffRows!SignedOut(new).authVersion = a.authVersion + 1
        /\ StaffRows!SignedOut(new).staffRevision = a.staffRevision + 1
        /\ StaffRows!SignedOut(new).password = a.password
    BY <1>3, RowSignedOut
  <2> QED
    BY <1>4, <1>5, <2>1, NewRevisionIsLater
<1>6. CASE ~(role # a.role \/ email # a.email)
  <2>1. Later(a, new)
    BY <1>3, <1>6, NewRevisionIsLater
  <2> QED
    BY <1>3, <1>4, <1>6, <2>1
<1> QED
  BY <1>5, <1>6

LEMMA RowOfStatus ==
    ASSUME NEW a \in StaffRows!Account, NEW isActive \in BOOLEAN
    PROVE  LET new == [a EXCEPT !.isActive = isActive, !.staffRevision = @ + 1]
           IN  /\ new \in StaffRows!Account /\ Later(a, new) /\ new.password = a.password
               /\ new.authVersion = a.authVersion
               /\ StaffRows!SignedOut(new) \in StaffRows!Account
               /\ Later(a, StaffRows!SignedOut(new))
               /\ StaffRows!SignedOut(new).password = a.password
               /\ StaffRows!SignedOut(new).authVersion = a.authVersion + 1
<1>1. ASSUME NEW m \in Nat
      PROVE  LET row == [a EXCEPT !.isActive = isActive, !.staffRevision = m]
             IN  /\ row \in StaffRows!Account /\ row.authVersion = a.authVersion
                 /\ row.staffRevision = m /\ row.password = a.password
                 /\ row.role = a.role /\ row.email = a.email
  BY DEF StaffRows!Account
<1>2. a.staffRevision + 1 \in Nat
  BY Columns
<1> DEFINE new == [a EXCEPT !.isActive = isActive, !.staffRevision = @ + 1]
<1>3. /\ new \in StaffRows!Account /\ new.authVersion = a.authVersion
      /\ new.staffRevision = a.staffRevision + 1 /\ new.password = a.password
      /\ new.role = a.role /\ new.email = a.email
  BY <1>1, <1>2
<1> HIDE DEF new
<1>4. /\ StaffRows!SignedOut(new) \in StaffRows!Account
      /\ StaffRows!SignedOut(new).authVersion = a.authVersion + 1
      /\ StaffRows!SignedOut(new).staffRevision = a.staffRevision + 1
      /\ StaffRows!SignedOut(new).password = a.password
  BY <1>3, RowSignedOut
<1>5. Later(a, new) /\ Later(a, StaffRows!SignedOut(new))
  BY <1>3, <1>4, NewRevisionIsLater
<1> QED
  BY <1>3, <1>4, <1>5 DEF new

LEMMA RowOfPassword ==
    ASSUME NEW a \in StaffRows!Account, NEW p \in Passwords
    PROVE  LET row == StaffRows!changeStaffTemporaryPassword(a, p)
           IN  /\ row \in StaffRows!Account /\ Later(a, row)
               /\ row.passwordChangeRequired = TRUE
               /\ row.authVersion = a.authVersion + 1
<1>1. ASSUME NEW m \in Nat
      PROVE  LET row == [a EXCEPT !.password = p, !.passwordChangeRequired = TRUE,
                                  !.staffRevision = m]
             IN  /\ row \in StaffRows!Account /\ row.authVersion = a.authVersion
                 /\ row.staffRevision = m /\ row.passwordChangeRequired = TRUE
  BY DEF StaffRows!Account
<1>2. a.staffRevision + 1 \in Nat
  BY Columns
<1> DEFINE new == [a EXCEPT !.password = p, !.passwordChangeRequired = TRUE,
                            !.staffRevision = @ + 1]
<1>3. /\ new \in StaffRows!Account /\ new.authVersion = a.authVersion
      /\ new.staffRevision = a.staffRevision + 1 /\ new.passwordChangeRequired = TRUE
  BY <1>1, <1>2
<1> HIDE DEF new
<1>4. /\ StaffRows!SignedOut(new) \in StaffRows!Account
      /\ StaffRows!SignedOut(new).authVersion = a.authVersion + 1
      /\ StaffRows!SignedOut(new).staffRevision = a.staffRevision + 1
      /\ StaffRows!SignedOut(new).passwordChangeRequired = TRUE
  BY <1>3, RowSignedOut
<1>5. Later(a, StaffRows!SignedOut(new))
  BY <1>4, NewRevisionIsLater
<1> QED
  BY <1>4, <1>5 DEF new, StaffRows!changeStaffTemporaryPassword

\* The rows of a driver shown or hidden, of a new name, and of a password of one's own.
LEMMA RowOfVisibility ==
    ASSUME NEW a \in StaffRows!Account
    PROVE  /\ LET row == [a EXCEPT !.isVisibleInDispatch = TRUE, !.staffRevision = @ + 1]
              IN  /\ row \in StaffRows!Account /\ Later(a, row) /\ row.password = a.password
                  /\ row.authVersion = a.authVersion
           /\ LET row == [StaffRows!ForceLogout(a) EXCEPT !.isVisibleInDispatch = FALSE]
              IN  /\ row \in StaffRows!Account /\ Later(a, row) /\ row.password = a.password
                  /\ row.authVersion = a.authVersion + 1
           /\ LET row == [a EXCEPT !.profile = @ + 1, !.staffRevision = @ + 1]
              IN  /\ row \in StaffRows!Account /\ Later(a, row) /\ row.password = a.password
                  /\ row.authVersion = a.authVersion
<1>1. a.profile + 1 \in Nat /\ a.staffRevision + 1 \in Nat
  BY Columns
<1>2. ASSUME NEW n \in Nat, NEW m \in Nat
      PROVE  /\ LET row == [a EXCEPT !.isVisibleInDispatch = TRUE, !.staffRevision = m]
                IN  /\ row \in StaffRows!Account /\ row.password = a.password
                    /\ row.authVersion = a.authVersion /\ row.staffRevision = m
                    /\ row.role = a.role /\ row.email = a.email
             /\ LET row == [a EXCEPT !.profile = n, !.staffRevision = m]
                IN  /\ row \in StaffRows!Account /\ row.password = a.password
                    /\ row.authVersion = a.authVersion /\ row.staffRevision = m
                    /\ row.role = a.role /\ row.email = a.email
  BY DEF StaffRows!Account
<1>3. LET row == [a EXCEPT !.isVisibleInDispatch = TRUE, !.staffRevision = @ + 1]
      IN  /\ row \in StaffRows!Account /\ Later(a, row) /\ row.password = a.password
          /\ row.authVersion = a.authVersion
  BY <1>1, <1>2, NewRevisionIsLater
<1>4. LET row == [a EXCEPT !.profile = @ + 1, !.staffRevision = @ + 1]
      IN  /\ row \in StaffRows!Account /\ Later(a, row) /\ row.password = a.password
          /\ row.authVersion = a.authVersion
  BY <1>1, <1>2, NewRevisionIsLater
<1>5. LET row == [StaffRows!ForceLogout(a) EXCEPT !.isVisibleInDispatch = FALSE]
      IN  /\ row \in StaffRows!Account /\ Later(a, row) /\ row.password = a.password
          /\ row.authVersion = a.authVersion + 1
  <2> DEFINE out == StaffRows!ForceLogout(a)
             row == [out EXCEPT !.isVisibleInDispatch = FALSE]
  <2>1. /\ out \in StaffRows!Account /\ out.password = a.password
        /\ out.authVersion = a.authVersion + 1 /\ out.staffRevision = a.staffRevision + 1
    BY RowsBecomeLater
  <2> HIDE DEF out
  <2>2. /\ row \in StaffRows!Account /\ row.password = out.password
        /\ row.authVersion = out.authVersion /\ row.staffRevision = out.staffRevision
    BY <2>1 DEF StaffRows!Account
  <2> HIDE DEF row
  <2>3. Later(a, row)
    BY <2>1, <2>2, NewRevisionIsLater
  <2> QED
    BY <2>1, <2>2, <2>3 DEF row, out
<1> QED
  BY <1>3, <1>4, <1>5

LEMMA RowOfNewPassword ==
    ASSUME NEW a \in StaffRows!Account, NEW p \in Passwords
    PROVE  LET row == [StaffRows!Bumped(a) EXCEPT !.password = p,
                           !.passwordChangeRequired = FALSE, !.isOnline = FALSE,
                           !.forceLogoutAt = FALSE]
           IN  /\ row \in StaffRows!Account /\ Later(a, row)
               /\ row.authVersion = a.authVersion + 1
<1> DEFINE next == StaffRows!Bumped(a)
           row == [next EXCEPT !.password = p, !.passwordChangeRequired = FALSE,
                               !.isOnline = FALSE, !.forceLogoutAt = FALSE]
<1>1. /\ next \in StaffRows!Account /\ next.authVersion = a.authVersion + 1
      /\ next.staffRevision = a.staffRevision + 1
  BY RowBumped
<1> HIDE DEF next
<1>2. /\ row \in StaffRows!Account /\ row.authVersion = next.authVersion
      /\ row.staffRevision = next.staffRevision
  BY <1>1 DEF StaffRows!Account
<1> HIDE DEF row
<1>3. Later(a, row)
  BY <1>1, <1>2, NewRevisionIsLater
<1> QED
  BY <1>1, <1>2, <1>3 DEF row, next

\* A write of some columns of one row is a write of that row.
LEMMA WrittenColumns ==
    ASSUME StaffTyped, NEW u \in Staff, NEW row,
           account' = [v \in Staff |-> account'[v]], account'[u] = row,
           \A v \in Staff : v # u => account'[v] = account[v]
    PROVE  account' = [account EXCEPT ![u] = row]
<1>1. [account EXCEPT ![u] = row] = [v \in Staff |-> IF v = u THEN row ELSE account[v]]
  BY DEF StaffTyped
<1>2. \A v \in Staff : account'[v] = IF v = u THEN row ELSE account[v]
  OBVIOUS
<1> QED
  BY <1>1, <1>2

\* The request of a handler that goes on.
LEMMA RequestRead ==
    ASSUME StaffInv, NEW r \in StaffRequests, req[r].pc # "idle"
    PROVE  /\ req[r].user \in Staff /\ req[r].snap \in StaffRows!Account
           /\ account[req[r].user] \in StaffRows!Account
           /\ req[r].epoch = req[r].snap.authVersion
           /\ Later(req[r].snap, account[req[r].user])
           /\ req[r].kind = "changePassword" =>
                 [user |-> req[r].user, authVersion |-> req[r].snap.authVersion] \in resets
BY DEF StaffInv, RequestHolds, StaffTyped

\* The steps that only read, and the sign-ins.
LEMMA ReadsGoOn ==
    ASSUME StaffInv, NEW r \in StaffRequests,
           \/ \E u \in Staff, p \in Passwords : StaffRows!LoginRead(r, u, p)
           \/ \E s \in sessions, kind \in {"heartbeat", "offline"} :
                 StaffRows!PresenceAuth(r, s, kind)
           \/ StaffRows!PresenceRead(r)
           \/ \E u \in Staff : StaffRows!EditOpen(r, u)
           \/ \E u \in Staff : StaffRows!adminDriverRead(r, u)
           \/ \E s \in sessions : StaffRows!updateMyProfileRead(r, s)
           \/ \E t \in resets : StaffRows!ChangePasswordRead(r, t)
           \/ StaffRows!Stop(r)
    PROVE  StaffInv' /\ PasswordRule
<1>0. /\ \A s \in sessions : s.user \in Staff
      /\ \A t \in resets : t.user \in Staff
                           /\ t = [user |-> t.user, authVersion |-> t.authVersion]
  BY DEF StaffInv, StaffTyped, StaffRows!Session, StaffRows!Reset
<1> USE DEF StaffRows!Tokens
<1>1. ASSUME NEW u \in Staff, NEW p \in Passwords, StaffRows!LoginRead(r, u, p)
      PROVE  StaffInv'
  BY <1>1, RequestStarts DEF StaffRows!LoginRead, StaffRows!Kinds
<1>2. ASSUME NEW s \in sessions, NEW kind \in {"heartbeat", "offline"},
             StaffRows!PresenceAuth(r, s, kind)
      PROVE  StaffInv'
  <2>1. kind \in StaffRows!Kinds /\ kind # "changePassword"
    BY DEF StaffRows!Kinds
  <2> QED
    BY <1>0, <1>2, <2>1, RequestStarts DEF StaffRows!PresenceAuth
<1>3. ASSUME StaffRows!PresenceRead(r)
      PROVE  StaffInv'
  <2> DEFINE row == [req[r] EXCEPT !.pc = "write"]
  <2>1. req[r] \in StaffRequest /\ req[r].pc # "idle" /\ RequestHolds(req[r])
    BY <1>3 DEF StaffRows!PresenceRead, StaffInv, StaffTyped
  <2>2. /\ row \in StaffRequest /\ row.pc = "write" /\ row.kind = req[r].kind
        /\ row.user = req[r].user /\ row.snap = req[r].snap /\ row.epoch = req[r].epoch
    BY <2>1 DEF StaffRequest
  <2>3. req' = [req EXCEPT ![r] = row]
    BY <1>3 DEF StaffRows!PresenceRead, StaffInv, StaffTyped
  <2> HIDE DEF row
  <2>4. RequestHolds(row)
    BY <2>1, <2>2 DEF RequestHolds
  <2>5. /\ req' \in [StaffRequests -> StaffRequest] /\ req'[r] = row
        /\ \A o \in StaffRequests : o # r => req'[o] = req[o]
    BY <2>2, <2>3 DEF StaffInv, StaffTyped
  <2>6. UNCHANGED <<account, sessions, resets, changes, epoch>>
    BY <1>3 DEF StaffRows!PresenceRead
  <2>7. \A o \in StaffRequests : RequestHolds(req[o])'
    BY <2>4, <2>5, <2>6 DEF RequestHolds, StaffInv
  <2> QED
    BY <2>5, <2>6, <2>7 DEF StaffInv, StaffTyped
<1>4. ASSUME NEW u \in Staff, StaffRows!EditOpen(r, u)
      PROVE  StaffInv'
  BY <1>4, RequestStarts DEF StaffRows!EditOpen, StaffRows!Kinds
<1>5. ASSUME NEW u \in Staff, StaffRows!adminDriverRead(r, u)
      PROVE  StaffInv'
  BY <1>5, RequestStarts DEF StaffRows!adminDriverRead, StaffRows!Kinds
<1>6. ASSUME NEW s \in sessions, StaffRows!updateMyProfileRead(r, s)
      PROVE  StaffInv'
  BY <1>0, <1>6, RequestStarts DEF StaffRows!updateMyProfileRead, StaffRows!Kinds
<1>7. ASSUME NEW t \in resets, StaffRows!ChangePasswordRead(r, t)
      PROVE  StaffInv'
  <2>1. [user |-> t.user, authVersion |-> account[t.user].authVersion] \in resets
    BY <1>0, <1>7 DEF StaffRows!ChangePasswordRead
  <2> QED
    BY <1>0, <1>7, <2>1, RequestStarts DEF StaffRows!ChangePasswordRead, StaffRows!Kinds
<1>8. ASSUME StaffRows!Stop(r)
      PROVE  StaffInv'
  <2>1. /\ req' \in [StaffRequests -> StaffRequest]
        /\ \A o \in StaffRequests : req'[o] = req[o] \/ RequestHolds(req[o])'
    BY <1>8, Responded DEF StaffRows!Stop
  <2>2. UNCHANGED <<account, sessions, resets, changes, epoch>>
    BY <1>8 DEF StaffRows!Stop
  <2>3. \A o \in StaffRequests : RequestHolds(req[o])'
    BY <2>1, <2>2 DEF RequestHolds, StaffInv
  <2> QED
    BY <2>1, <2>2, <2>3 DEF StaffInv, StaffTyped
<1>9. account' = account
  BY DEF StaffRows!LoginRead, StaffRows!PresenceAuth, StaffRows!PresenceRead,
         StaffRows!EditOpen, StaffRows!adminDriverRead, StaffRows!updateMyProfileRead,
         StaffRows!ChangePasswordRead, StaffRows!Stop
<1> QED
  BY <1>1, <1>2, <1>3, <1>4, <1>5, <1>6, <1>7, <1>8, <1>9 DEF PasswordRule

LEMMA PasswordWritten ==
    ASSUME StaffTyped, NEW u \in Staff, NEW row, account' = [account EXCEPT ![u] = row],
           row.password = account[u].password \/ row.passwordChangeRequired = TRUE
    PROVE  PasswordRule
<1>1. account'[u] = row /\ \A v \in Staff : v # u => account'[v] = account[v]
  BY DEF StaffTyped
<1>2. ASSUME NEW v \in Staff, account'[v].password # account[v].password
      PROVE  account'[v].passwordChangeRequired
  BY <1>1, <1>2
<1> QED
  BY <1>2 DEF PasswordRule

\* What a sign-in signs.
LEMMA SignInsGoOn ==
    ASSUME StaffInv, NEW r \in StaffRequests,
           StaffRows!LoginForChange(r) \/ StaffRows!LoginCommit(r)
    PROVE  StaffInv' /\ PasswordRule
<1> DEFINE q == req[r]
           u == req[r].user
           a == account[u]
<1>0. /\ u \in Staff /\ q.snap \in StaffRows!Account /\ a \in StaffRows!Account
      /\ q.epoch = q.snap.authVersion /\ Later(q.snap, a)
  <2>1. req[r].pc # "idle"
    BY DEF StaffRows!LoginForChange, StaffRows!LoginCommit, StaffRows!At
  <2> QED
    BY <2>1, RequestRead
<1>1. CASE StaffRows!LoginForChange(r)
  <2> DEFINE reset == [user |-> u, authVersion |-> q.snap.authVersion]
  <2>1. reset \in StaffRows!Reset
    BY <1>0, Columns DEF StaffRows!Reset
  <2>2. /\ resets' = resets \cup {reset} /\ StaffRows!Respond(r)
        /\ UNCHANGED <<account, sessions, changes, epoch>>
    BY <1>1 DEF StaffRows!LoginForChange
  <2>3. resets \subseteq resets' /\ resets' \subseteq StaffRows!Reset
    BY <2>1, <2>2 DEF StaffInv, StaffTyped
  <2>4. \A v \in Staff : Later(account[v], account'[v]) /\ epoch'[v] = account'[v].authVersion
    BY <2>2, LaterThanItself DEF StaffInv, StaffTyped
  <2>5. /\ req' \in [StaffRequests -> StaffRequest]
        /\ \A o \in StaffRequests : req'[o] = req[o] \/ RequestHolds(req[o])'
    BY <2>2, Responded
  <2>6. /\ account' \in [Staff -> StaffRows!Account] /\ epoch' \in [Staff -> Nat]
        /\ sessions' \subseteq StaffRows!Session /\ changes' \subseteq StaffRows!Reset
        /\ sessions' \ sessions = {} /\ changes' \ changes = {}
    BY <2>2 DEF StaffInv, StaffTyped
  <2>7. PasswordRule
    BY <2>2 DEF PasswordRule
  <2> QED
    BY <2>3, <2>4, <2>5, <2>6, <2>7, StaffStep
<1>2. CASE StaffRows!LoginCommit(r)
  <2>1. PICK on \in BOOLEAN :
           account' = [account EXCEPT ![u].forceLogoutAt = FALSE, ![u].isOnline = on]
    <3>1. a.isOnline \in BOOLEAN
      BY <1>0, Columns
    <3>2. account' = [account EXCEPT ![u].forceLogoutAt = FALSE,
                          ![u].isOnline = IF q.snap.role = "DRIVER" THEN TRUE ELSE @]
      BY <1>2 DEF StaffRows!LoginCommit
    <3>3. CASE q.snap.role = "DRIVER"
      BY <3>2, <3>3
    <3>4. CASE q.snap.role # "DRIVER"
      <4>1. account' = [account EXCEPT ![u].forceLogoutAt = FALSE, ![u].isOnline = a.isOnline]
        BY <1>0, <3>2, <3>4 DEF StaffInv, StaffTyped, StaffRows!Account
      <4> QED
        BY <3>1, <4>1
    <3> QED
      BY <3>3, <3>4
  <2> DEFINE row == [a EXCEPT !.forceLogoutAt = FALSE, !.isOnline = on]
  <2>2. account' = [account EXCEPT ![u] = row]
    <3>1. account \in [Staff -> StaffRows!Account]
      BY DEF StaffInv, StaffTyped
    <3>2. /\ account' = [v \in Staff |-> account'[v]]
          /\ \A v \in Staff : v # u => account'[v] = account[v]
      BY <2>1, <3>1
    <3>3. account'[u] = row
      BY <1>0, <2>1, <3>1
    <3> QED
      BY <1>0, <3>2, <3>3, WrittenColumns DEF StaffInv
  <2>3. /\ row \in StaffRows!Account /\ Later(a, row) /\ row.authVersion = a.authVersion
        /\ row.password = a.password /\ row.role = a.role /\ row.email = a.email
    BY <1>0, RowsBecomeLater
  <2> HIDE DEF row
  <2> DEFINE session == [user |-> u, authVersion |-> q.snap.authVersion,
                         password |-> q.snap.password, role |-> q.snap.role,
                         email |-> q.snap.email, epoch |-> q.epoch]
  <2>4. /\ sessions' = sessions \cup {session} /\ StaffRows!Respond(r)
        /\ UNCHANGED <<resets, changes, epoch>>
        /\ a.authVersion = q.snap.authVersion
    BY <1>2 DEF StaffRows!LoginCommit
  <2>5. session \in StaffRows!Session
    BY <1>0, Columns DEF StaffRows!Session
  <2>6. /\ session.user = u /\ session.authVersion = q.snap.authVersion
        /\ session.epoch = q.snap.authVersion
        /\ session.password = q.snap.password /\ session.role = q.snap.role
        /\ session.email = q.snap.email /\ q.snap.authVersion \in Nat
    BY <1>0, Columns
  <2> HIDE DEF session
  <2>7. Vouches(session, row)
    BY <1>0, <2>3, <2>4, <2>6 DEF Vouches, Later
  <2>8. /\ sessions' \subseteq StaffRows!Session /\ changes' \subseteq StaffRows!Reset
        /\ \A s \in sessions' \ sessions : s.user = u /\ Vouches(s, row)
        /\ changes' \ changes = {}
    BY <2>4, <2>5, <2>6, <2>7 DEF StaffInv, StaffTyped
  <2>9. PasswordRule
    BY <1>0, <2>2, <2>3, PasswordWritten DEF StaffInv
  <2> QED
    BY <1>0, <2>2, <2>3, <2>4, <2>8, <2>9, RequestWrites
<1> QED
  BY <1>1, <1>2

\* A request that writes one row, signs nothing, and uses no credential.
LEMMA PlainWrite ==
    ASSUME StaffInv, NEW r \in StaffRequests, NEW u \in Staff,
           NEW row \in StaffRows!Account, Later(account[u], row),
           account' = [account EXCEPT ![u] = row],
           \/ row.authVersion = account[u].authVersion /\ epoch' = epoch
           \/ row.authVersion = account[u].authVersion + 1 /\ StaffRows!Revoke(u),
           UNCHANGED StaffRows!Tokens,
           StaffRows!Respond(r) \/ req' = req,
           row.password = account[u].password \/ row.passwordChangeRequired = TRUE
    PROVE  StaffInv' /\ PasswordRule
<1>1. UNCHANGED <<sessions, resets, changes>>
  BY DEF StaffRows!Tokens
<1>2. /\ sessions' \subseteq StaffRows!Session /\ changes' \subseteq StaffRows!Reset
      /\ sessions' \ sessions = {} /\ changes' \ changes = {}
  BY <1>1 DEF StaffInv, StaffTyped
<1>3. PasswordRule
  BY PasswordWritten DEF StaffInv
<1> QED
  BY <1>1, <1>2, <1>3, RequestWrites

LEMMA StaffGoesOn ==
    ASSUME StaffRows!StaffAssumption, StaffInv, [StaffRows!Next]_StaffRows!vars
    PROVE  StaffInv' /\ PasswordRule
<1>1. ASSUME NEW r \in StaffRequests, StaffRows!PresenceCommit(r)
      PROVE  StaffInv' /\ PasswordRule
  <2> DEFINE u == req[r].user
  <2>1. u \in Staff /\ account[u] \in StaffRows!Account
    BY <1>1, RequestRead DEF StaffRows!PresenceCommit
  <2>2. PICK on \in BOOLEAN : account' = [account EXCEPT ![u].isOnline = on]
    BY <1>1 DEF StaffRows!PresenceCommit
  <2> DEFINE row == [account[u] EXCEPT !.isOnline = on]
  <2>3. account' = [account EXCEPT ![u] = row]
    BY <2>1, <2>2 DEF StaffInv, StaffTyped
  <2>4. /\ row \in StaffRows!Account /\ Later(account[u], row)
        /\ row.authVersion = account[u].authVersion /\ row.password = account[u].password
    BY <2>1, RowsBecomeLater
  <2>5. epoch' = epoch /\ UNCHANGED StaffRows!Tokens /\ StaffRows!Respond(r)
    BY <1>1 DEF StaffRows!PresenceCommit
  <2> HIDE DEF row
  <2> QED
    BY <2>1, <2>3, <2>4, <2>5, PlainWrite
<1>2. ASSUME NEW r \in StaffRequests, NEW role \in StaffRows!Roles, NEW new \in {0, 1},
             StaffRows!EditProfile(r, role, req[r].snap.email + new)
      PROVE  StaffInv' /\ PasswordRule
  <2> DEFINE u == req[r].user
             email == req[r].snap.email + new
             row == StaffRows!changeStaffProfile(account[u], role, email)
  <2>1. /\ u \in Staff /\ account[u] \in StaffRows!Account
        /\ req[r].snap \in StaffRows!Account
    BY <1>2, RequestRead DEF StaffRows!EditProfile, StaffRows!At
  <2>2. email \in Nat
    BY <2>1, Columns
  <2>3. account' = [account EXCEPT ![u] = row]
    BY <1>2, <2>1 DEF StaffRows!EditProfile, StaffInv, StaffTyped
  <2>4. /\ UNCHANGED StaffRows!Tokens /\ StaffRows!Respond(r)
        /\ IF role # account[u].role \/ email # account[u].email
           THEN StaffRows!Revoke(u) ELSE UNCHANGED epoch
    BY <1>2 DEF StaffRows!EditProfile
  <2> HIDE DEF email
  <2>5. /\ row \in StaffRows!Account /\ Later(account[u], row)
        /\ row.authVersion = IF role # account[u].role \/ email # account[u].email
                             THEN account[u].authVersion + 1 ELSE account[u].authVersion
        /\ row.password = account[u].password
    BY <2>1, <2>2, RowOfProfile
  <2> HIDE DEF row
  <2>6. \/ row.authVersion = account[u].authVersion /\ epoch' = epoch
        \/ row.authVersion = account[u].authVersion + 1 /\ StaffRows!Revoke(u)
    BY <2>4, <2>5
  <2> QED
    BY <2>1, <2>3, <2>4, <2>5, <2>6, PlainWrite
<1>3. ASSUME NEW r \in StaffRequests, NEW isActive \in BOOLEAN,
             StaffRows!EditStatus(r, isActive)
      PROVE  StaffInv' /\ PasswordRule
  <2> DEFINE u == req[r].user
             a == account[u]
             new == [a EXCEPT !.isActive = isActive, !.staffRevision = @ + 1]
  <2>1. u \in Staff /\ a \in StaffRows!Account
    BY <1>3, RequestRead DEF StaffRows!EditStatus, StaffRows!At
  <2>2. /\ UNCHANGED StaffRows!Tokens /\ StaffRows!Respond(r)
        /\ IF isActive /\ a.isActive THEN UNCHANGED epoch ELSE StaffRows!Revoke(u)
    BY <1>3 DEF StaffRows!EditStatus
  <2>3. account' = [account EXCEPT ![u] = StaffRows!changeStaffStatus(a, isActive)]
    BY <1>3, <2>1 DEF StaffRows!EditStatus, StaffInv, StaffTyped
  <2>7. StaffRows!changeStaffStatus(a, isActive) =
           IF isActive /\ a.isActive THEN new ELSE StaffRows!SignedOut(new)
    BY DEF StaffRows!changeStaffStatus
  <2>4. /\ new \in StaffRows!Account /\ Later(a, new) /\ new.authVersion = a.authVersion
        /\ StaffRows!SignedOut(new) \in StaffRows!Account
        /\ Later(a, StaffRows!SignedOut(new))
        /\ StaffRows!SignedOut(new).authVersion = a.authVersion + 1
        /\ new.password = a.password /\ StaffRows!SignedOut(new).password = a.password
    BY <2>1, RowOfStatus
  <2> HIDE DEF new
  <2>5. CASE isActive /\ a.isActive
    <3>1. account' = [account EXCEPT ![u] = new] /\ epoch' = epoch
      BY <2>2, <2>3, <2>5, <2>7
    <3> QED
      BY <2>1, <2>2, <2>4, <3>1, PlainWrite
  <2>6. CASE ~(isActive /\ a.isActive)
    <3>1. account' = [account EXCEPT ![u] = StaffRows!SignedOut(new)] /\ StaffRows!Revoke(u)
      BY <2>2, <2>3, <2>6, <2>7
    <3> QED
      BY <2>1, <2>2, <2>4, <3>1, PlainWrite
  <2> QED
    BY <2>5, <2>6
<1>4. ASSUME NEW r \in StaffRequests, NEW p \in Passwords, StaffRows!EditPassword(r, p)
      PROVE  StaffInv' /\ PasswordRule
  <2> DEFINE u == req[r].user
             row == StaffRows!changeStaffTemporaryPassword(account[u], p)
  <2>1. u \in Staff /\ account[u] \in StaffRows!Account
    BY <1>4, RequestRead DEF StaffRows!EditPassword, StaffRows!At
  <2>2. account' = [account EXCEPT ![u] = row]
    BY <1>4, <2>1 DEF StaffRows!EditPassword, StaffInv, StaffTyped
  <2>3. UNCHANGED StaffRows!Tokens /\ StaffRows!Respond(r) /\ StaffRows!Revoke(u)
    BY <1>4 DEF StaffRows!EditPassword
  <2>4. /\ row \in StaffRows!Account /\ Later(account[u], row)
        /\ row.authVersion = account[u].authVersion + 1 /\ row.passwordChangeRequired = TRUE
    BY <2>1, RowOfPassword
  <2> HIDE DEF row
  <2> QED
    BY <2>1, <2>2, <2>3, <2>4, PlainWrite
<1>5. ASSUME NEW r \in StaffRequests, StaffRows!forceLogoutDriver(r)
      PROVE  StaffInv' /\ PasswordRule
  <2> DEFINE u == req[r].user
             row == StaffRows!ForceLogout(account[u])
  <2>1. u \in Staff /\ account[u] \in StaffRows!Account
    BY <1>5, RequestRead DEF StaffRows!forceLogoutDriver, StaffRows!At
  <2>2. account' = [account EXCEPT ![u] = row]
    BY <1>5, <2>1 DEF StaffRows!forceLogoutDriver, StaffInv, StaffTyped
  <2>3. UNCHANGED StaffRows!Tokens /\ StaffRows!Respond(r) /\ StaffRows!Revoke(u)
    BY <1>5 DEF StaffRows!forceLogoutDriver
  <2>4. /\ row \in StaffRows!Account /\ Later(account[u], row)
        /\ row.authVersion = account[u].authVersion + 1
        /\ row.password = account[u].password
    BY <2>1, RowsBecomeLater
  <2> HIDE DEF row
  <2> QED
    BY <2>1, <2>2, <2>3, <2>4, PlainWrite
<1>6. ASSUME NEW r \in StaffRequests, StaffRows!updateVisibility(r)
      PROVE  StaffInv' /\ PasswordRule
  <2> DEFINE u == req[r].user
             a == account[u]
             seen == [a EXCEPT !.isVisibleInDispatch = TRUE, !.staffRevision = @ + 1]
             hidden == [StaffRows!ForceLogout(a) EXCEPT !.isVisibleInDispatch = FALSE]
  <2>1. u \in Staff /\ a \in StaffRows!Account
    BY <1>6, RequestRead DEF StaffRows!updateVisibility, StaffRows!At
  <2>2. UNCHANGED StaffRows!Tokens /\ StaffRows!Respond(r)
    BY <1>6 DEF StaffRows!updateVisibility
  <2>3. \/ /\ account' = [account EXCEPT ![u].isVisibleInDispatch = TRUE,
                                         ![u].staffRevision = @ + 1]
           /\ epoch' = epoch
        \/ account' = [account EXCEPT ![u] = hidden] /\ StaffRows!Revoke(u)
    BY <1>6, <2>1 DEF StaffRows!updateVisibility, StaffInv, StaffTyped
  <2>4. /\ seen \in StaffRows!Account /\ Later(a, seen) /\ seen.authVersion = a.authVersion
        /\ hidden \in StaffRows!Account /\ Later(a, hidden)
        /\ hidden.authVersion = a.authVersion + 1
        /\ seen.password = a.password /\ hidden.password = a.password
    BY <2>1, RowOfVisibility
  <2>5. CASE /\ account' = [account EXCEPT ![u].isVisibleInDispatch = TRUE,
                                           ![u].staffRevision = @ + 1]
             /\ epoch' = epoch
    <3>1. account \in [Staff -> StaffRows!Account]
      BY DEF StaffInv, StaffTyped
    <3>2. /\ account' = [v \in Staff |-> account'[v]]
          /\ \A v \in Staff : v # u => account'[v] = account[v]
      BY <2>5, <3>1
    <3>3. account'[u] = seen
      BY <2>1, <2>5, <3>1 DEF StaffRows!Account
    <3> HIDE DEF seen
    <3>4. account' = [account EXCEPT ![u] = seen]
      BY <2>1, <3>2, <3>3, WrittenColumns DEF StaffInv
    <3> QED
      BY <2>1, <2>2, <2>4, <2>5, <3>4, PlainWrite
  <2>6. CASE account' = [account EXCEPT ![u] = hidden] /\ StaffRows!Revoke(u)
    <3> HIDE DEF hidden
    <3> QED
      BY <2>1, <2>2, <2>4, <2>6, PlainWrite
  <2> QED
    BY <2>3, <2>5, <2>6
<1>7. ASSUME NEW r \in StaffRequests, StaffRows!updateMyProfile(r)
      PROVE  StaffInv' /\ PasswordRule
  <2> DEFINE u == req[r].user
             row == [account[u] EXCEPT !.profile = @ + 1, !.staffRevision = @ + 1]
  <2>1. u \in Staff /\ account[u] \in StaffRows!Account
    BY <1>7, RequestRead DEF StaffRows!updateMyProfile, StaffRows!At
  <2>2. /\ UNCHANGED StaffRows!Tokens /\ StaffRows!Respond(r) /\ epoch' = epoch
        /\ account' = [account EXCEPT ![u].profile = @ + 1, ![u].staffRevision = @ + 1]
    BY <1>7 DEF StaffRows!updateMyProfile
  <2>3. account' = [account EXCEPT ![u] = row]
    <3>1. account \in [Staff -> StaffRows!Account]
      BY DEF StaffInv, StaffTyped
    <3>2. /\ account' = [v \in Staff |-> account'[v]]
          /\ \A v \in Staff : v # u => account'[v] = account[v]
      BY <2>2, <3>1
    <3>3. account'[u] = row
      BY <2>1, <2>2, <3>1 DEF StaffRows!Account
    <3> HIDE DEF row
    <3> QED
      BY <2>1, <3>2, <3>3, WrittenColumns DEF StaffInv
  <2>4. /\ row \in StaffRows!Account /\ Later(account[u], row)
        /\ row.authVersion = account[u].authVersion /\ row.password = account[u].password
    BY <2>1, RowOfVisibility
  <2> HIDE DEF row
  <2> QED
    BY <2>1, <2>2, <2>3, <2>4, PlainWrite
<1>8. ASSUME NEW r \in StaffRequests, NEW p \in Passwords, StaffRows!ChangePasswordCommit(r, p)
      PROVE  StaffInv' /\ PasswordRule
  <2> DEFINE u == req[r].user
             a == account[u]
             row == [StaffRows!Bumped(a) EXCEPT !.password = p,
                         !.passwordChangeRequired = FALSE, !.isOnline = FALSE,
                         !.forceLogoutAt = FALSE]
             change == [user |-> u, authVersion |-> req[r].snap.authVersion]
  <2>1. u \in Staff /\ a \in StaffRows!Account /\ req[r].snap \in StaffRows!Account
    BY <1>8, RequestRead DEF StaffRows!ChangePasswordCommit, StaffRows!At
  <2>2. account' = [account EXCEPT ![u] = row]
    BY <1>8, <2>1 DEF StaffRows!ChangePasswordCommit, StaffInv, StaffTyped
  <2>3. /\ changes' = changes \cup {change} /\ UNCHANGED <<sessions, resets>>
        /\ StaffRows!Respond(r) /\ StaffRows!Revoke(u)
        /\ a.authVersion = req[r].snap.authVersion
    BY <1>8 DEF StaffRows!ChangePasswordCommit
  <2>4. row \in StaffRows!Account /\ Later(a, row) /\ row.authVersion = a.authVersion + 1
    BY <2>1, RowOfNewPassword
  <2> HIDE DEF row
  <2>5. /\ change \in StaffRows!Reset /\ change.user = u
        /\ change.authVersion < row.authVersion
    BY <2>1, <2>3, <2>4, Columns DEF StaffRows!Reset
  <2> HIDE DEF change
  <2>6. /\ sessions' \subseteq StaffRows!Session /\ changes' \subseteq StaffRows!Reset
        /\ sessions' \ sessions = {}
        /\ \A c \in changes' \ changes : c.user = u /\ c.authVersion < row.authVersion
    BY <2>3, <2>5 DEF StaffInv, StaffTyped
  <2>7. StaffInv'
    BY <2>1, <2>2, <2>3, <2>4, <2>6, RequestWrites
  <2>8. \A v \in Staff : v # u => account'[v] = account[v]
    BY <2>2 DEF StaffInv, StaffTyped
  <2>9. /\ change = [user |-> u, authVersion |-> a.authVersion]
        /\ change \in resets /\ change \notin changes
    <3>1. change = [user |-> u, authVersion |-> a.authVersion]
      BY <2>3 DEF change
    <3>2. change \in resets
      BY <1>8, <2>3, <3>1, RequestRead DEF StaffRows!ChangePasswordCommit, StaffRows!At
    <3>3. a.authVersion \in Nat
      BY <2>1, Columns
    <3>4. change.user = u /\ change.authVersion = a.authVersion
      BY <3>1
    <3>5. change \in changes => change.authVersion < a.authVersion
      BY <3>4 DEF StaffInv
    <3> QED
      BY <3>1, <3>2, <3>3, <3>4, <3>5
  <2>10. PasswordRule
    BY <2>3, <2>8, <2>9 DEF PasswordRule
  <2> QED
    BY <2>7, <2>10
<1>9. ASSUME NEW u \in Staff, StaffRows!forceLogoutDispatcher(u)
      PROVE  StaffInv' /\ PasswordRule
  <2> DEFINE row == StaffRows!ForceLogout(account[u])
  <2>1. account[u] \in StaffRows!Account
    BY DEF StaffInv, StaffTyped
  <2>2. /\ account' = [account EXCEPT ![u] = row] /\ StaffRows!Revoke(u)
        /\ UNCHANGED <<sessions, resets, changes, req>>
    BY <1>9 DEF StaffRows!forceLogoutDispatcher, StaffRows!Tokens, StaffInv, StaffTyped
  <2>3. /\ row \in StaffRows!Account /\ Later(account[u], row)
        /\ row.authVersion = account[u].authVersion + 1
        /\ row.password = account[u].password
    BY <2>1, RowsBecomeLater
  <2> HIDE DEF row
  <2>4. /\ account' \in [Staff -> StaffRows!Account] /\ epoch' \in [Staff -> Nat]
        /\ \A v \in Staff : /\ Later(account[v], account'[v])
                            /\ epoch'[v] = account'[v].authVersion
    BY <2>2, <2>3, RowWritten DEF StaffInv
  <2>5. /\ sessions' \ sessions = {} /\ changes' \ changes = {}
        /\ sessions' \subseteq StaffRows!Session /\ resets' \subseteq StaffRows!Reset
        /\ changes' \subseteq StaffRows!Reset /\ resets \subseteq resets'
        /\ req' \in [StaffRequests -> StaffRequest]
        /\ \A r \in StaffRequests : req'[r] = req[r]
    BY <2>2 DEF StaffInv, StaffTyped
  <2>6. PasswordRule
    BY <2>2, <2>3, PasswordWritten DEF StaffInv
  <2> QED
    BY <2>4, <2>5, <2>6, StaffStep
<1>10. CASE UNCHANGED StaffRows!vars
  <2>1. UNCHANGED <<account, sessions, resets, changes, epoch, req>>
    BY <1>10 DEF StaffRows!vars
  <2> QED
    BY <2>1 DEF StaffInv, StaffTyped, RequestHolds, PasswordRule
<1> QED
  BY <1>1, <1>2, <1>3, <1>4, <1>5, <1>6, <1>7, <1>8, <1>9, <1>10, ReadsGoOn, SignInsGoOn
     DEF StaffRows!Next, StaffRows!RequestStep

\* What the rows, the tokens and the requests then show.
LEMMA AccountsSound ==
    ASSUME StaffInv
    PROVE  StaffRows!SessionsCurrent /\ StaffRows!EditsSeeCurrentRow
<1>1. ASSUME NEW s \in sessions, StaffRows!requireAuth(s)
      PROVE  /\ s.epoch = epoch[s.user]
             /\ s.password = account[s.user].password
             /\ s.role = account[s.user].role
             /\ s.email = account[s.user].email
  <2>1. s.user \in Staff /\ Vouches(s, account[s.user])
    BY DEF StaffInv, StaffTyped, StaffRows!Session
  <2>2. epoch[s.user] = account[s.user].authVersion
    BY <2>1 DEF StaffInv
  <2> QED
    BY <1>1, <2>1, <2>2 DEF StaffRows!requireAuth, Vouches
<1>2. ASSUME NEW r \in StaffRequests, req[r].kind = "edit",
             req[r].snap.staffRevision = account[req[r].user].staffRevision
      PROVE  StaffRows!Shown(req[r].snap) = StaffRows!Shown(account[req[r].user])
  BY <1>2 DEF StaffInv, RequestHolds, Later
<1> QED
  BY <1>1, <1>2 DEF StaffRows!SessionsCurrent, StaffRows!EditsSeeCurrentRow

-----------------------------------------------------------------------------
(***************************************************************************)
(* The theorems: none of the services reads what another one writes, so    *)
(* what each keeps holds in any interleaving of them.                      *)
(***************************************************************************)

LEMMA GuardAlways == ASSUME Guard!GuardAssumption PROVE Guard!Spec => []GuardInv
<1>1. Guard!Init => GuardInv
  BY GuardBegins
<1>2. GuardInv /\ [Guard!Next]_Guard!vars => GuardInv'
  BY GuardGoesOn
<1> QED
  BY <1>1, <1>2, PTL DEF Guard!Spec

LEMMA SyntheticAlways ==
    ASSUME Synthetic!SyntheticAssumption PROVE Synthetic!Spec => []SyntheticInv
<1>1. Synthetic!Init => SyntheticInv
  BY SyntheticBegins
<1>2. SyntheticInv /\ [Synthetic!Next]_Synthetic!vars => SyntheticInv'
  BY SyntheticGoesOn
<1> QED
  BY <1>1, <1>2, PTL DEF Synthetic!Spec

LEMMA RefreshAlways == ASSUME Refresh!RefreshAssumption PROVE Refresh!Spec => []RefreshInv
<1>1. Refresh!Init => RefreshInv
  BY RefreshBegins
<1>2. RefreshInv /\ [Refresh!Next]_Refresh!vars => RefreshInv'
  BY RefreshGoesOn
<1> QED
  BY <1>1, <1>2, PTL DEF Refresh!Spec

LEMMA ShopAlways == ASSUME Shop!BusinessHoursAssumption PROVE Shop!Spec => []ShopInv
<1>1. Shop!Init => ShopInv
  BY ShopBegins
<1>2. ShopInv /\ [Shop!Next]_Shop!vars => ShopInv'
  BY ShopGoesOn
<1> QED
  BY <1>1, <1>2, PTL DEF Shop!Spec

\* Within its window a submission key earns one order, unless its client was told of an
\* error or a slow request released a row that was no longer its own; within its slot or
\* week a paid call is made once; and the synthetic profile spends no more orders and
\* e-mails than it was enrolled with, and none once it is closed: for any windows, limits
\* and numbers of callers (orderDuplicateGuard.ts:62-112, pickupLocationHours.service.ts:363-379,
\* businessHours.service.ts:18-31, syntheticOrderSafety.service.ts:58-131).
THEOREM LimitsAreKept == ASSUME ServicesAssumption PROVE ServicesSpec => []LimitsKept
<1>1. GuardInv => Guard!OneOrderPerWindow
  BY OneOrder DEF ServicesAssumption
<1>2. SyntheticInv => Synthetic!BudgetKept
  BY DEF SyntheticInv
<1>3. RefreshInv => Refresh!PaidOncePerWeek
  BY DEF RefreshInv
<1>4. ShopInv => Shop!OncePerSlot
  BY DEF ShopInv, Shop!OncePerSlot
<1>5. GuardInv /\ SyntheticInv /\ RefreshInv /\ ShopInv => LimitsKept
  BY <1>1, <1>2, <1>3, <1>4 DEF LimitsKept
<1>6. /\ Guard!Spec => []GuardInv
      /\ Synthetic!Spec => []SyntheticInv
      /\ Refresh!Spec => []RefreshInv
      /\ Shop!Spec => []ShopInv
  BY GuardAlways, SyntheticAlways, RefreshAlways, ShopAlways DEF ServicesAssumption
<1> QED
  BY <1>5, <1>6, PTL DEF ServicesSpec

\* Once the process stops no push begins, no assignment is announced more than twice,
\* and only a token that the provider refused is cleared, for any number of drivers and
\* assignments (driverAssignmentNotification.service.ts:60-160).
THEOREM PushesAreSound == ASSUME ServicesAssumption PROVE ServicesSpec => PushesSound
<1>0. Push!PushAssumption
  BY DEF ServicesAssumption
<1>1. Push!Init => PushInv
  BY <1>0, PushBegins
<1>2. PushInv /\ [Push!Next]_Push!vars => PushInv'
  BY <1>0, PushGoesOn
<1>3. PushInv /\ [Push!Next]_Push!vars =>
         [\A n \in Notices : sends'[n] # sends[n] => ~stopped /\ sends'[n] <= 2]_Push!vars
  BY <1>0, PushBeginsInTime
<1>4. PushInv /\ [Push!Next]_Push!vars =>
         [\A d \in Drivers : token[d] # 0 /\ token'[d] = 0 => token[d] \in dead]_Push!vars
  BY <1>0, RefusalsClearTheirToken
<1> QED
  BY <1>1, <1>2, <1>3, <1>4, PTL
     DEF ServicesSpec, Push!Spec, PushesSound, Push!NoPushAfterStop, Push!LiveTokenKept

\* Nobody's save or repeated request undoes what its sender had not seen, for any number
\* of administrators, entries and versions (dispatcherStandards.service.ts:65-87,
\* dispatcherPinboard.controller.ts:76-86, deliveryCheckIn.routes.ts:84-93).
THEOREM NoSaveIsBlind == ASSUME ServicesAssumption PROVE ServicesSpec => []NoBlindOverwrite
<1>0. Boards!BoardsAssumption
  BY DEF ServicesAssumption
<1>1. Boards!Init => BoardsInv
  BY <1>0, BoardsBegins
<1>2. BoardsInv /\ [Boards!Next]_Boards!vars => BoardsInv'
  BY <1>0, BoardsGoesOn
<1>3. BoardsInv => NoBlindOverwrite
  BY DEF BoardsInv, NoBlindOverwrite
<1> QED
  BY <1>1, <1>2, <1>3, PTL DEF ServicesSpec, Boards!Spec

\* A session that is accepted was signed after the access was last taken away, for the
\* present password, role and email; an edit goes through on the row its editor saw; and
\* a version sees one password change, made by its own credential: for any number of
\* accounts and requests in flight (staff.controller.ts:44-140, auth.controller.ts:100-162,
\* auth.middleware.ts:6-83).
THEOREM AccountsAreCurrent == ASSUME ServicesAssumption PROVE ServicesSpec => AccountsCurrent
<1>0. StaffRows!StaffAssumption
  BY DEF ServicesAssumption
<1>1. StaffRows!Init => StaffInv
  BY <1>0, StaffBegins
<1>2. StaffInv /\ [StaffRows!Next]_StaffRows!vars => StaffInv' /\ [PasswordRule]_StaffRows!vars
  BY <1>0, StaffGoesOn
<1>3. StaffInv => StaffRows!SessionsCurrent /\ StaffRows!EditsSeeCurrentRow
  BY AccountsSound
<1> QED
  BY <1>1, <1>2, <1>3, PTL
     DEF ServicesSpec, StaffRows!Spec, AccountsCurrent, StaffRows!ChangeTokenUsedOnce,
         PasswordRule

-----------------------------------------------------------------------------
(***************************************************************************)
(* StoreHours                                                              *)
(***************************************************************************)
HoursInv ==
    /\ store \in StoresAsked /\ arrival \in Nat
    /\ verdict \in {"", StoreOpen!evaluatePickupStoreEligibility(store, arrival)}

LEMMA HoursNumbers ==
    ASSUME StoreOpen!StoreHoursAssumption
    PROVE  /\ Day \in Nat \ {0} /\ Buffer \in Nat /\ Buffer < Day
           /\ StoreOpen!Week \in Nat \ {0} /\ Buffer < StoreOpen!Week
           /\ StoreOpen!Never = -1
<1>1. Day \in Nat \ {0} /\ Days \in Nat \ {0} /\ Buffer \in Nat /\ Buffer < Day
    BY DEF StoreOpen!StoreHoursAssumption
<1>2. StoreOpen!Week \in Nat \ {0} /\ Day <= StoreOpen!Week
    BY <1>1, CycleLength DEF StoreOpen!Week
<1> QED
    BY <1>1, <1>2 DEF StoreOpen!Never

\* How long a store is open that opens and closes at these minutes of a cycle.
LEMMA OpenFor ==
    ASSUME NEW n \in Nat \ {0}, NEW a \in 0 .. n - 1, NEW b \in 0 .. n - 1
    PROVE  /\ a + StoreOpen!Length(a, b, n) = StoreOpen!ClosingAfter(a, b, n)
           /\ StoreOpen!Length(a, b, n) \in Int
<1>1. CASE b <= a
    <2>1. b - a - 1 = n * (-1) + (b - a - 1 + n) /\ b - a - 1 + n \in 0 .. n - 1
        BY <1>1
    <2>2. (b - a - 1) % n = b - a - 1 + n
        BY <2>1, RemainderOf
    <2> QED
        BY <1>1, <2>2 DEF StoreOpen!Length, StoreOpen!ClosingAfter
<1>2. CASE ~(b <= a)
    <2>1. b - a - 1 = n * 0 + (b - a - 1) /\ b - a - 1 \in 0 .. n - 1
        BY <1>2
    <2>2. (b - a - 1) % n = b - a - 1
        BY <2>1, RemainderOf
    <2> QED
        BY <1>2, <2>2 DEF StoreOpen!Length, StoreOpen!ClosingAfter
<1> QED
    BY <1>1, <1>2

\* A span of time holds the arrival; one of them holds it and the buffer after it.
Holds(span) == span.from <= arrival /\ arrival < span.to

Served(spans) == \E span \in spans : Holds(span) /\ arrival + Buffer <= span.to

Spans == [from : Int, to : Int]

\* What a period says, with the span it says it of.
SaysOf(says, spans) ==
    /\ \A i \in DOMAIN says :
          says[i] # "" =>
              \E span \in spans :
                  Holds(span) /\ says[i] = StoreOpen!Within(arrival + Buffer, span.to)
    /\ \A span \in spans : Holds(span) => \E i \in DOMAIN says : says[i] # ""

\* The first period that holds the arrival decides as any other would, unless two
\* different spans hold it.
LEMMA FirstDecides ==
    ASSUME StoreOpen!StoreHoursAssumption, arrival \in Nat,
           NEW spans \in SUBSET Spans, NEW says, DOMAIN says \subseteq Nat,
           SaysOf(says, spans)
    PROVE  /\ StoreOpen!FirstSaid(says) = "ELIGIBLE" => Served(spans)
           /\ Served(spans) /\ StoreOpen!Apart(spans) => StoreOpen!FirstSaid(says) = "ELIGIBLE"
           /\ StoreOpen!FirstSaid(says) # ""
<1> DEFINE speaking == {i \in DOMAIN says : says[i] # ""}
           first == CHOOSE i \in speaking : \A j \in speaking : i <= j
<1>1. Buffer \in Nat /\ StoreOpen!Never = -1
    BY HoursNumbers
<1>2. CASE speaking = {}
    <2>1. StoreOpen!FirstSaid(says) = "NOT_OPEN_AT_ARRIVAL"
        BY <1>2 DEF StoreOpen!FirstSaid
    <2>2. ~Served(spans)
        BY <1>2 DEF Served, SaysOf
    <2> QED
        BY <2>1, <2>2
<1>3. CASE speaking # {}
    <2>1. first \in speaking
        BY <1>3, LeastExists
    <2>2. StoreOpen!FirstSaid(says) = says[first]
        BY <1>3 DEF StoreOpen!FirstSaid
    <2> HIDE DEF first
    <2>3. PICK span \in spans :
             Holds(span) /\ says[first] = StoreOpen!Within(arrival + Buffer, span.to)
        BY <2>1 DEF SaysOf
    <2>4. span.from \in Int /\ span.to \in Int
        BY DEF Spans
    <2>5. /\ says[first] = "ELIGIBLE" <=> arrival + Buffer <= span.to
          /\ says[first] # ""
        BY <1>1, <2>3, <2>4 DEF StoreOpen!Within, Holds
    <2>6. ASSUME Served(spans), StoreOpen!Apart(spans)
          PROVE  arrival + Buffer <= span.to
        <3>1. PICK other \in spans : Holds(other) /\ arrival + Buffer <= other.to
            BY <2>6 DEF Served
        <3>2. other.from \in Int /\ other.to \in Int
            BY DEF Spans
        <3>3. ~(span.to <= other.from) /\ ~(other.to <= span.from)
            BY <2>3, <2>4, <3>1, <3>2 DEF Holds
        <3>4. span = other
            BY <2>6, <3>3 DEF StoreOpen!Apart
        <3> QED
            BY <3>1, <3>4
    <2> QED
        BY <2>2, <2>3, <2>5, <2>6 DEF Served
<1> QED
    BY <1>2, <1>3

LEMMA PeriodFields ==
    ASSUME NEW periods \in Seq([open : Nat, close : Nat \cup {StoreOpen!Never}]),
           NEW i \in DOMAIN periods
    PROVE  /\ periods[i].open \in Nat /\ periods[i].close \in Nat \cup {StoreOpen!Never}
           /\ i \in Nat
<1> DEFINE P == [open : Nat, close : Nat \cup {StoreOpen!Never}]
<1>1. periods \in Seq(P)
    OBVIOUS
<1> HIDE DEF P
<1>2. periods[i] \in P /\ i \in Nat
    BY <1>1
<1> QED
    BY <1>2 DEF P

\* Dated periods, over their spans.
LEMMA DatedDecided ==
    ASSUME StoreOpen!StoreHoursAssumption, arrival \in Nat,
           NEW periods \in Seq([open : Nat, close : Nat \cup {StoreOpen!Never}])
    PROVE  LET says == [i \in DOMAIN periods |-> StoreOpen!DatedSays(arrival, periods[i])]
               spans == StoreOpen!DatedSpans(periods)
           IN  spans \in SUBSET Spans /\ SaysOf(says, spans)
<1> DEFINE says == [i \in DOMAIN periods |-> StoreOpen!DatedSays(arrival, periods[i])]
           spans == StoreOpen!DatedSpans(periods)
           span(i) == [from |-> periods[i].open,
                       to |-> IF periods[i].close = StoreOpen!Never THEN StoreOpen!Far
                              ELSE StoreOpen!ClosingAfter(periods[i].open, periods[i].close, Day)]
<1>1. /\ Buffer \in Nat /\ StoreOpen!Never = -1 /\ Day \in Nat \ {0}
      /\ StoreOpen!Week \in Nat \ {0}
    BY HoursNumbers
<1>2. StoreOpen!Far \in Int /\ arrival + Buffer < StoreOpen!Far
    BY <1>1 DEF StoreOpen!Far
<1>3. ASSUME NEW i \in DOMAIN periods
      PROVE  /\ periods[i].open \in Nat /\ periods[i].close \in Nat \cup {StoreOpen!Never}
             /\ span(i).from = periods[i].open
             /\ span(i).from \in Int /\ span(i).to \in Int
    <2>1. periods[i].open \in Nat /\ periods[i].close \in Nat \cup {StoreOpen!Never}
        BY PeriodFields
    <2> QED
        BY <1>1, <1>2, <2>1 DEF StoreOpen!ClosingAfter
<1>4. spans = {span(i) : i \in DOMAIN periods}
    <2>1. ASSUME NEW i \in DOMAIN periods
          PROVE  span(i) = [from |-> periods[i].open,
                            to |-> IF periods[i].close = StoreOpen!Never THEN StoreOpen!Far
                                   ELSE IF periods[i].close > periods[i].open
                                        THEN periods[i].close
                                        ELSE periods[i].close + Day]
        BY <1>1, <1>3 DEF StoreOpen!ClosingAfter
    <2> QED
        BY <2>1 DEF StoreOpen!DatedSpans
<1>5. spans \in SUBSET Spans
    BY <1>3, <1>4 DEF Spans
<1>6. ASSUME NEW i \in DOMAIN periods
      PROVE  says[i] = IF Holds(span(i)) THEN StoreOpen!Within(arrival + Buffer, span(i).to) ELSE ""
    <2>1. says[i] = StoreOpen!DatedSays(arrival, periods[i])
        OBVIOUS
    <2>2. CASE periods[i].close = StoreOpen!Never
        <3>1. span(i).to = StoreOpen!Far
            BY <2>2
        <3>2. Holds(span(i)) = ~(arrival < periods[i].open)
            BY <1>1, <1>2, <1>3, <3>1 DEF Holds
        <3>3. StoreOpen!Within(arrival + Buffer, span(i).to) = "ELIGIBLE"
            BY <1>1, <1>2, <3>1 DEF StoreOpen!Within
        <3>4. says[i] = IF arrival < periods[i].open THEN "" ELSE "ELIGIBLE"
            BY <2>1, <2>2 DEF StoreOpen!DatedSays
        <3> QED
            BY <3>2, <3>3, <3>4, Zenon
    <2>3. CASE periods[i].close # StoreOpen!Never
        <3> DEFINE close == StoreOpen!ClosingAfter(periods[i].open, periods[i].close, Day)
        <3>1. span(i).to = close
            BY <2>3
        <3>2. says[i] = IF arrival < periods[i].open THEN ""
                        ELSE IF arrival >= close THEN ""
                        ELSE StoreOpen!Within(arrival + Buffer, close)
            BY <2>1, <2>3 DEF StoreOpen!DatedSays
        <3>3. close \in Int
            BY <1>3, <3>1
        <3> HIDE DEF close
        <3>4. Holds(span(i)) = (~(arrival < periods[i].open) /\ ~(arrival >= close))
            BY <1>3, <3>1, <3>3 DEF Holds
        <3> QED
            BY <3>1, <3>2, <3>4, Zenon
    <2> QED
        BY <2>2, <2>3
<1> HIDE DEF says, spans, span
<1>7. DOMAIN says = DOMAIN periods
    BY DEF says
<1>8. \A s : StoreOpen!Within(arrival + Buffer, s) # ""
    BY DEF StoreOpen!Within
<1>9. SaysOf(says, spans)
    BY <1>4, <1>6, <1>7, <1>8 DEF SaysOf
<1> QED
    BY <1>5, <1>9 DEF says, spans

\* A weekly period, at the minute of the week the arrival has.
Minute == arrival % StoreOpen!Week

ClosesAt(p) == StoreOpen!ClosingAfter(p.open, p.close, StoreOpen!Week)

Met(p, o) == Minute + o >= p.open /\ Minute + o < ClosesAt(p)

LEMMA WeeklySaying ==
    ASSUME StoreOpen!StoreHoursAssumption, arrival \in Nat,
           NEW p, p.open \in Nat, p.close \in Nat
    PROVE  /\ ~Met(p, 0) /\ ~Met(p, StoreOpen!Week) => StoreOpen!WeeklySays(arrival, p) = ""
           /\ Met(p, 0) \/ Met(p, StoreOpen!Week) =>
                  \E o \in {0, StoreOpen!Week} :
                      /\ Met(p, o)
                      /\ StoreOpen!WeeklySays(arrival, p) =
                             StoreOpen!Within(Minute + Buffer + o, ClosesAt(p))
<1> DEFINE W == StoreOpen!Week
           buffered == (arrival + Buffer) % W
           lasting == IF buffered < Minute THEN buffered + W ELSE buffered
           met == {o \in {0, W} : Minute + o >= p.open /\ Minute + o < ClosesAt(p)}
           least == CHOOSE o \in met : \A q \in met : o <= q
<1>1. /\ Buffer \in Nat /\ Buffer < W /\ W \in Nat \ {0} /\ StoreOpen!Never = -1
    BY HoursNumbers
<1>2. Minute \in 0 .. W - 1
    BY <1>1, Quotients DEF Minute
<1>3. lasting = Minute + Buffer
    <2>a. Buffer \in 0 .. W - 1 /\ arrival \in Int
        BY <1>1
    <2>b. Minute = arrival % W
        BY DEF Minute
    <2> HIDE DEF W
    <2>1. buffered = IF Minute + Buffer < W THEN Minute + Buffer ELSE Minute + Buffer - W
        BY <1>1, <2>a, <2>b, LaterRemainder
    <2> HIDE DEF buffered
    <2>2. CASE Minute + Buffer < W
        BY <1>1, <1>2, <2>1, <2>2
    <2>3. CASE ~(Minute + Buffer < W)
        <3>1. buffered = Minute + Buffer - W
            BY <2>1, <2>3
        <3> QED
            BY <1>1, <1>2, <3>1
    <2> QED
        BY <2>2, <2>3
<1>4. p.close # StoreOpen!Never
    BY <1>1
<1>5. StoreOpen!WeeklySays(arrival, p) =
         IF met = {} THEN "" ELSE StoreOpen!Within(lasting + least, ClosesAt(p))
    BY <1>4 DEF StoreOpen!WeeklySays, Minute, ClosesAt
<1> HIDE DEF lasting, W
<1>6. met # {} => least \in met
    <2>1. \A o, q \in met : o <= q \/ q <= o
        BY <1>1
    <2>2. met # {} => \E o \in met : \A q \in met : o <= q
        BY <1>1
    <2> QED
        BY <2>2
<1> HIDE DEF least
<1>7. CASE met = {}
    <2>1. ~Met(p, 0) /\ ~Met(p, W)
        BY <1>7 DEF Met
    <2> QED
        BY <1>5, <1>7, <2>1 DEF W
<1>8. CASE met # {}
    <2>1. least \in {0, W} /\ Met(p, least) /\ lasting + least = Minute + Buffer + least
        BY <1>1, <1>2, <1>3, <1>6, <1>8 DEF Met
    <2>2. StoreOpen!WeeklySays(arrival, p) =
             StoreOpen!Within(Minute + Buffer + least, ClosesAt(p))
        BY <1>5, <1>8, <2>1
    <2> QED
        BY <2>1, <2>2 DEF W
<1> QED
    BY <1>7, <1>8

\* Weekly periods, over their spans in the week of the arrival and those around it.
LEMMA WeeklyDecided ==
    ASSUME StoreOpen!StoreHoursAssumption, arrival \in Nat,
           NEW periods \in Seq([open : Nat, close : Nat \cup {StoreOpen!Never}]),
           \A i \in DOMAIN periods :
               periods[i].open < StoreOpen!Week /\ periods[i].close < StoreOpen!Week
    PROVE  LET says == [i \in DOMAIN periods |-> StoreOpen!WeeklySays(arrival, periods[i])]
               spans == StoreOpen!WeeklySpans(periods)
           IN  spans \in SUBSET Spans /\ SaysOf(says, spans)
<1> DEFINE says == [i \in DOMAIN periods |-> StoreOpen!WeeklySays(arrival, periods[i])]
           spans == StoreOpen!WeeklySpans(periods)
           W == StoreOpen!Week
           close(i) == ClosesAt(periods[i])
           from(i, w) == arrival - Minute + w + periods[i].open
           to(i, w) == arrival - Minute + w + close(i)
           span(i, w) == IF periods[i].close = StoreOpen!Never
                         THEN [from |-> 0, to |-> StoreOpen!Far]
                         ELSE [from |-> from(i, w), to |-> to(i, w)]
<1>1. /\ Buffer \in Nat /\ StoreOpen!Never = -1 /\ W \in Nat \ {0}
    BY HoursNumbers
<1>2. StoreOpen!Far \in Int /\ arrival + Buffer < StoreOpen!Far
    BY <1>1 DEF StoreOpen!Far
<1>3. Minute \in 0 .. W - 1
    BY <1>1, Quotients DEF Minute
<1>4. ASSUME NEW i \in DOMAIN periods
      PROVE  /\ periods[i].open \in 0 .. W - 1
             /\ periods[i].close = StoreOpen!Never \/ periods[i].close \in 0 .. W - 1
             /\ close(i) \in Int
    <2>1. periods[i].open \in Nat /\ periods[i].close \in Nat \cup {StoreOpen!Never}
        BY PeriodFields
    <2>2. periods[i].open < W /\ periods[i].close < W
        OBVIOUS
    <2>3. close(i) \in Int
        BY <1>1, <2>1 DEF ClosesAt, StoreOpen!ClosingAfter
    <2> QED
        BY <1>1, <2>1, <2>2, <2>3
<1>5. spans = {span(i, w) : i \in DOMAIN periods, w \in {-W, 0, W}}
    <2>1. ASSUME NEW i \in DOMAIN periods, NEW w \in {-W, 0, W},
                 periods[i].close # StoreOpen!Never
          PROVE  LET f == arrival - (arrival % W) + w + periods[i].open
                 IN  f = from(i, w)
                     /\ f + StoreOpen!Length(periods[i].open, periods[i].close, W) = to(i, w)
        <3> DEFINE length == StoreOpen!Length(periods[i].open, periods[i].close, W)
        <3>1. periods[i].open + length = close(i)
            BY <1>1, <1>4, <2>1, OpenFor DEF ClosesAt
        <3>2. periods[i].open \in Int /\ length \in Int
            <4>1. /\ W \in Nat \ {0} /\ periods[i].open \in 0 .. W - 1
                  /\ periods[i].close \in 0 .. W - 1
                BY <1>1, <1>4, <2>1
            <4> HIDE DEF W
            <4>2. StoreOpen!Length(periods[i].open, periods[i].close, W) \in Int
                BY <4>1, OpenFor
            <4> QED
                BY <4>1, <4>2
        <3>3. Minute \in Int /\ W \in Int /\ w \in Int /\ close(i) \in Int
            BY <1>1, <1>3, <1>4
        <3> HIDE DEF length, close, W
        <3>4. Minute = arrival % W
            BY DEF Minute, W
        <3> QED
            BY <3>1, <3>2, <3>3, <3>4 DEF length
    <2> QED
        BY <2>1 DEF StoreOpen!WeeklySpans
<1> HIDE DEF W, close, spans
<1>6. ASSUME NEW i \in DOMAIN periods, NEW w \in {-W, 0, W}
      PROVE  /\ span(i, w) \in Spans
             /\ periods[i].close = StoreOpen!Never =>
                    span(i, w).from = 0 /\ span(i, w).to = StoreOpen!Far
             /\ periods[i].close # StoreOpen!Never =>
                    span(i, w).from = from(i, w) /\ span(i, w).to = to(i, w)
    <2>1. CASE periods[i].close = StoreOpen!Never
        BY <1>2, <2>1 DEF Spans
    <2>2. CASE periods[i].close # StoreOpen!Never
        <3>0. Minute \in Int /\ w \in Int /\ periods[i].open \in Int /\ close(i) \in Int
            BY <1>1, <1>3, <1>4
        <3>1. from(i, w) \in Int /\ to(i, w) \in Int
            BY <3>0
        <3>2. span(i, w) = [from |-> from(i, w), to |-> to(i, w)]
            BY <2>2
        <3> HIDE DEF from, to, span
        <3> QED
            BY <2>2, <3>1, <3>2 DEF Spans
    <2> QED
        BY <2>1, <2>2
<1> HIDE DEF span
<1>7. ASSUME NEW i \in DOMAIN periods, says[i] # ""
      PROVE  \E s \in spans : Holds(s) /\ says[i] = StoreOpen!Within(arrival + Buffer, s.to)
    <2>1. says[i] = StoreOpen!WeeklySays(arrival, periods[i])
        OBVIOUS
    <2>2. CASE periods[i].close = StoreOpen!Never
        <3>1. span(i, 0) \in spans /\ span(i, 0).from = 0 /\ span(i, 0).to = StoreOpen!Far
            BY <1>5, <1>6, <2>2
        <3>2. Holds(span(i, 0))
            BY <1>1, <1>2, <3>1 DEF Holds
        <3>3. StoreOpen!Within(arrival + Buffer, span(i, 0).to) = "ELIGIBLE"
            BY <1>1, <1>2, <3>1 DEF StoreOpen!Within
        <3>4. says[i] = "ELIGIBLE"
            BY <2>1, <2>2 DEF StoreOpen!WeeklySays
        <3> QED
            BY <3>1, <3>2, <3>3, <3>4
    <2>3. CASE periods[i].close # StoreOpen!Never
        <3>1. PICK o \in {0, W} :
                 /\ Met(periods[i], o)
                 /\ says[i] = StoreOpen!Within(Minute + Buffer + o, close(i))
            <4>1. periods[i].open \in Nat /\ periods[i].close \in Nat
                BY <1>1, <1>4, <2>3
            <4>2. says[i] = "" \/ Met(periods[i], 0) \/ Met(periods[i], W)
                BY <2>1, <4>1, WeeklySaying DEF W
            <4> QED
                BY <1>7, <2>1, <4>1, <4>2, WeeklySaying DEF W, close
        <3> DEFINE s == span(i, -o)
        <3>a. -o \in {-W, 0, W} /\ o \in Int
            BY <1>1
        <3>b. s \in spans /\ s.from = from(i, -o) /\ s.to = to(i, -o)
            BY <1>5, <1>6, <2>3, <3>a
        <3> HIDE DEF s
        <3>2. Minute \in Int /\ periods[i].open \in Int /\ close(i) \in Int /\ W \in Int
            BY <1>1, <1>3, <1>4
        <3>c. /\ s.from = arrival - Minute - o + periods[i].open
              /\ s.to = arrival - Minute - o + close(i)
            BY <3>2, <3>a, <3>b
        <3>d. Minute + o >= periods[i].open /\ Minute + o < close(i)
            BY <3>1 DEF Met, close
        <3> HIDE DEF from, to
        <3>3. Holds(s)
            BY <3>2, <3>a, <3>c, <3>d DEF Holds
        <3>e. arrival + Buffer <= s.to <=> Minute + Buffer + o <= close(i)
            BY <1>1, <3>2, <3>a, <3>c
        <3>f. s.to # StoreOpen!Never /\ close(i) # StoreOpen!Never
            BY <1>1, <1>3, <1>4, <3>2, <3>3, <3>c, <3>d DEF Holds
        <3>4. StoreOpen!Within(arrival + Buffer, s.to) =
                 StoreOpen!Within(Minute + Buffer + o, close(i))
            BY <3>e, <3>f DEF StoreOpen!Within
        <3> QED
            BY <3>1, <3>3, <3>4, <3>b
    <2> QED
        BY <2>2, <2>3
<1>8. ASSUME NEW s \in spans, Holds(s)
      PROVE  \E i \in DOMAIN periods : says[i] # ""
    <2>1. PICK i \in DOMAIN periods, w \in {-W, 0, W} : s = span(i, w)
        BY <1>5
    <2>2. says[i] = StoreOpen!WeeklySays(arrival, periods[i])
        OBVIOUS
    <2>3. CASE periods[i].close = StoreOpen!Never
        BY <2>2, <2>3 DEF StoreOpen!WeeklySays
    <2>4. CASE periods[i].close # StoreOpen!Never
        <3>1. s.from = from(i, w) /\ s.to = to(i, w)
            BY <1>6, <2>1, <2>4
        <3>2. w \in Int /\ -w \in {-W, 0, W}
            BY <1>1
        <3>3. Minute - w >= periods[i].open /\ Minute - w < close(i)
            BY <1>3, <1>4, <1>8, <3>1, <3>2 DEF Holds
        <3>4. close(i) = ClosesAt(periods[i])
            BY DEF close
        <3> HIDE DEF from, to
        <3>5. -w # -W
            BY <1>1, <1>3, <1>4, <3>3
        <3>6. Met(periods[i], 0) \/ Met(periods[i], W)
            BY <1>1, <1>3, <1>4, <3>2, <3>3, <3>4, <3>5 DEF Met
        <3>7. periods[i].open \in Nat /\ periods[i].close \in Nat
            BY <1>1, <1>4, <2>4
        <3>8. \E o \in {0, W} : says[i] = StoreOpen!Within(Minute + Buffer + o, close(i))
            BY <2>2, <3>4, <3>6, <3>7, WeeklySaying DEF W
        <3> QED
            BY <3>8 DEF StoreOpen!Within
    <2> QED
        BY <2>3, <2>4
<1>9. spans \in SUBSET Spans
    BY <1>5, <1>6
<1>10. SaysOf(says, spans)
    BY <1>7, <1>8 DEF SaysOf
<1> QED
    BY <1>9, <1>10 DEF spans

\* The override of the date of arrival, over its one span.
LEMMA OverrideDecided ==
    ASSUME StoreOpen!StoreHoursAssumption, arrival \in Nat, NEW s \in StoresAsked,
           StoreOpen!DayOf(arrival) \in DOMAIN s.override
    PROVE  LET answer == StoreOpen!inManualOverride(arrival, s.override)
               spans == StoreOpen!OverrideSpans(StoreOpen!DayOf(arrival),
                                                s.override[StoreOpen!DayOf(arrival)])
           IN  /\ answer # ""
               /\ answer = "ELIGIBLE" <=> Served(spans)
<1> DEFINE answer == StoreOpen!inManualOverride(arrival, s.override)
           day == StoreOpen!DayOf(arrival)
           entry == s.override[day]
           spans == StoreOpen!OverrideSpans(day, entry)
           midnight == day * Day
           open == midnight + entry.open
           close == StoreOpen!ClosingAfter(open, midnight + entry.close, Day)
<1>1. /\ Buffer \in Nat /\ StoreOpen!Never = -1 /\ Day \in Nat \ {0}
    BY HoursNumbers
<1>2. entry.open \in 0 .. Day - 1 /\ entry.close \in 0 .. Day - 1
    BY DEF StoreOpen!StoreHoursAssumption, StoreOpen!IsStore
<1>3. midnight \in Nat
    BY <1>1, CycleBegins DEF StoreOpen!DayOf
<1>4. open \in Nat /\ close \in Nat
    BY <1>1, <1>2, <1>3 DEF StoreOpen!ClosingAfter
<1>5. answer = IF entry.closed THEN "MANUAL_CLOSED"
               ELSE IF ~ entry.readable THEN "HOURS_UNAVAILABLE"
               ELSE IF arrival < open \/ arrival >= close THEN "NOT_OPEN_AT_ARRIVAL"
               ELSE StoreOpen!Within(arrival + Buffer, close)
    BY DEF StoreOpen!inManualOverride
<1>6. open + StoreOpen!Length(entry.open, entry.close, Day) = close
    <2>1. entry.open + StoreOpen!Length(entry.open, entry.close, Day) =
             StoreOpen!ClosingAfter(entry.open, entry.close, Day)
        BY <1>1, <1>2, OpenFor
    <2>2. StoreOpen!Length(entry.open, entry.close, Day) \in Int
        BY <1>1, <1>2, OpenFor
    <2>3. close = midnight + StoreOpen!ClosingAfter(entry.open, entry.close, Day)
        BY <1>1, <1>2, <1>3 DEF StoreOpen!ClosingAfter
    <2>4. StoreOpen!ClosingAfter(entry.open, entry.close, Day) \in Int
        BY <1>1, <1>2 DEF StoreOpen!ClosingAfter
    <2> QED
        BY <1>2, <1>3, <2>1, <2>2, <2>3, <2>4
<1>7. spans = IF entry.closed \/ ~ entry.readable THEN {}
              ELSE {[from |-> open,
                     to |-> open + StoreOpen!Length(entry.open, entry.close, Day)]}
    BY DEF StoreOpen!OverrideSpans
<1> HIDE DEF answer, spans, entry, open, close
<1>8. CASE entry.closed \/ ~ entry.readable
    <2>1. ~Served(spans)
        BY <1>7, <1>8 DEF Served
    <2> QED
        BY <1>5, <1>8, <2>1 DEF answer, spans, entry
<1>9. CASE ~(entry.closed \/ ~ entry.readable)
    <2>1. spans = {[from |-> open, to |-> close]}
        BY <1>6, <1>7, <1>9
    <2>2. Served(spans) <=> open <= arrival /\ arrival < close /\ arrival + Buffer <= close
        BY <2>1 DEF Served, Holds
    <2>3. answer = IF arrival < open \/ arrival >= close THEN "NOT_OPEN_AT_ARRIVAL"
                   ELSE StoreOpen!Within(arrival + Buffer, close)
        BY <1>5, <1>9
    <2>4. StoreOpen!Within(arrival + Buffer, close) =
             IF arrival + Buffer <= close THEN "ELIGIBLE" ELSE "CLOSES_WITHIN_BUFFER"
        BY <1>1, <1>4 DEF StoreOpen!Within
    <2>5. (answer = "ELIGIBLE" <=> Served(spans)) /\ answer # ""
        <3>1. CASE arrival < open \/ arrival >= close
            <4>1. answer = "NOT_OPEN_AT_ARRIVAL"
                BY <2>3, <3>1
            <4>2. ~(open <= arrival /\ arrival < close)
                BY <1>4, <3>1
            <4> QED
                BY <2>2, <4>1, <4>2
        <3>2. CASE ~(arrival < open \/ arrival >= close)
            <4>1. answer = IF arrival + Buffer <= close THEN "ELIGIBLE"
                           ELSE "CLOSES_WITHIN_BUFFER"
                BY <2>3, <2>4, <3>2
            <4>2. open <= arrival /\ arrival < close
                BY <1>4, <3>2
            <4> QED
                BY <2>2, <4>1, <4>2
        <3> QED
            BY <3>1, <3>2
    <2> QED
        BY <2>5 DEF answer, spans, entry
<1> QED
    BY <1>8, <1>9

\* Hours that were fetched, over the spans they stand for.
HoursSpans(hs) ==
    CASE hs.kind = "none"   -> {}
      [] hs.kind = "dated"  -> StoreOpen!DatedSpans(hs.periods)
      [] hs.kind = "weekly" -> StoreOpen!WeeklySpans(hs.periods)

LEMMA FetchedDecided ==
    ASSUME StoreOpen!StoreHoursAssumption, arrival \in Nat,
           NEW hs, StoreOpen!IsHours(hs), hs.kind # "none"
    PROVE  LET answer == StoreOpen!evaluateGoogleHours(arrival, hs)
           IN  /\ answer # ""
               /\ answer = "ELIGIBLE" => Served(HoursSpans(hs))
               /\ Served(HoursSpans(hs)) /\ StoreOpen!Apart(HoursSpans(hs)) =>
                      answer = "ELIGIBLE"
<1> DEFINE periods == hs.periods
<1>1. periods \in Seq([open : Nat, close : Nat \cup {StoreOpen!Never}])
    BY DEF StoreOpen!IsHours
<1>2. DOMAIN periods \subseteq Nat
    BY <1>1
<1>3. CASE hs.kind = "dated"
    <2> DEFINE says == [i \in DOMAIN periods |-> StoreOpen!DatedSays(arrival, periods[i])]
               spans == StoreOpen!DatedSpans(periods)
    <2>1. spans \in SUBSET Spans /\ SaysOf(says, spans)
        BY <1>1, DatedDecided
    <2>2. DOMAIN says \subseteq Nat
        BY <1>2
    <2>3. /\ StoreOpen!evaluateGoogleHours(arrival, hs) = StoreOpen!FirstSaid(says)
          /\ HoursSpans(hs) = spans
        BY <1>3 DEF StoreOpen!evaluateGoogleHours, StoreOpen!evaluateExplicitDatePeriods,
                    HoursSpans
    <2> HIDE DEF says, spans
    <2> QED
        BY <2>1, <2>2, <2>3, FirstDecides
<1>4. CASE hs.kind = "weekly"
    <2> DEFINE says == [i \in DOMAIN periods |-> StoreOpen!WeeklySays(arrival, periods[i])]
               spans == StoreOpen!WeeklySpans(periods)
    <2>0. \A i \in DOMAIN periods :
             periods[i].open < StoreOpen!Week /\ periods[i].close < StoreOpen!Week
        BY <1>4 DEF StoreOpen!IsHours
    <2>1. spans \in SUBSET Spans /\ SaysOf(says, spans)
        BY <1>1, <2>0, WeeklyDecided
    <2>2. DOMAIN says \subseteq Nat
        BY <1>2
    <2>3. /\ StoreOpen!evaluateGoogleHours(arrival, hs) = StoreOpen!FirstSaid(says)
          /\ HoursSpans(hs) = spans
        BY <1>4 DEF StoreOpen!evaluateGoogleHours, StoreOpen!evaluateWeeklyPeriods, HoursSpans
    <2> HIDE DEF says, spans
    <2> QED
        BY <2>1, <2>2, <2>3, FirstDecides
<1> QED
    BY <1>3, <1>4 DEF StoreOpen!IsHours

\* The override first, then the current hours, then the regular ones.
LEMMA VerdictSound ==
    ASSUME StoreOpen!StoreHoursAssumption, HoursInv
    PROVE  StoreOpen!OpenForTheBuffer
<1>1. store \in StoresAsked /\ arrival \in Nat
    BY DEF HoursInv
<1>2. StoreOpen!IsHours(store.current) /\ StoreOpen!IsHours(store.regular)
    BY <1>1 DEF StoreOpen!StoreHoursAssumption, StoreOpen!IsStore
<1> DEFINE manual == StoreOpen!inManualOverride(arrival, store.override)
           current == StoreOpen!evaluateGoogleHours(arrival, store.current)
           regular == StoreOpen!evaluateGoogleHours(arrival, store.regular)
           answer == StoreOpen!evaluatePickupStoreEligibility(store, arrival)
           overriden == StoreOpen!DayOf(arrival) \in DOMAIN store.override
           fetched == IF store.current.kind # "none" THEN store.current ELSE store.regular
<1>3. answer = IF ~ store.operational THEN "BUSINESS_NOT_OPERATIONAL"
               ELSE IF manual # "" THEN manual
               ELSE IF current # "" THEN current
               ELSE IF regular # "" THEN regular
               ELSE "HOURS_UNAVAILABLE"
    BY DEF StoreOpen!evaluatePickupStoreEligibility
<1>4. overriden => manual # "" /\ (manual = "ELIGIBLE" <=> Served(StoreOpen!OpenSpans))
    <2> SUFFICES ASSUME overriden
                 PROVE  manual # "" /\ (manual = "ELIGIBLE" <=> Served(StoreOpen!OpenSpans))
        OBVIOUS
    <2>1. StoreOpen!OpenSpans = StoreOpen!OverrideSpans(StoreOpen!DayOf(arrival),
                                    store.override[StoreOpen!DayOf(arrival)])
        BY DEF StoreOpen!OpenSpans
    <2> QED
        BY <1>1, <2>1, OverrideDecided
<1>5. ~overriden => manual = "" /\ StoreOpen!OpenSpans = HoursSpans(fetched)
    BY DEF StoreOpen!OpenSpans, StoreOpen!inManualOverride, HoursSpans
<1>6. store.current.kind = "none" => current = ""
    BY DEF StoreOpen!evaluateGoogleHours
<1>7. store.regular.kind = "none" => regular = ""
    BY DEF StoreOpen!evaluateGoogleHours
<1>8. fetched.kind = "none" => HoursSpans(fetched) = {}
    BY DEF HoursSpans
<1>9. store.current.kind # "none" =>
         /\ current # ""
         /\ current = "ELIGIBLE" => Served(HoursSpans(fetched))
         /\ Served(HoursSpans(fetched)) /\ StoreOpen!Apart(HoursSpans(fetched)) =>
                current = "ELIGIBLE"
    BY <1>1, <1>2, FetchedDecided
<1>10. store.current.kind = "none" /\ store.regular.kind # "none" =>
         /\ regular # ""
         /\ regular = "ELIGIBLE" => Served(HoursSpans(fetched))
         /\ Served(HoursSpans(fetched)) /\ StoreOpen!Apart(HoursSpans(fetched)) =>
                regular = "ELIGIBLE"
    BY <1>1, <1>2, FetchedDecided
<1>11. store.current.kind = "none" => fetched = store.regular
    OBVIOUS
<1>12. ~Served({})
    BY DEF Served
<1> HIDE DEF manual, current, regular, answer, overriden, fetched
<1>13. /\ answer = "ELIGIBLE" => Served(StoreOpen!OpenSpans) /\ store.operational
       /\ (Served(StoreOpen!OpenSpans) /\ store.operational /\ StoreOpen!Apart(StoreOpen!OpenSpans))
              => answer = "ELIGIBLE"
    BY <1>3, <1>4, <1>5, <1>6, <1>7, <1>8, <1>9, <1>10, <1>11, <1>12
<1>14. verdict # "" => verdict = answer
    BY DEF HoursInv, answer
<1>15. StoreOpen!OpenForTheBuffer <=>
         (verdict # "" =>
            /\ verdict = "ELIGIBLE" => Served(StoreOpen!OpenSpans) /\ store.operational
            /\ (Served(StoreOpen!OpenSpans) /\ store.operational
                 /\ StoreOpen!Apart(StoreOpen!OpenSpans)) => verdict = "ELIGIBLE")
    BY DEF StoreOpen!OpenForTheBuffer, Served, Holds
<1> QED
    BY <1>13, <1>14, <1>15

LEMMA HoursAlways ==
    ASSUME StoreOpen!StoreHoursAssumption
    PROVE  StoreOpen!HoursSpec => []StoreOpen!OpenForTheBuffer
<1>1. StoreOpen!HoursInit => HoursInv
    BY DEF StoreOpen!HoursInit, HoursInv, StoreOpen!StoreHoursAssumption
<1>2. HoursInv /\ [StoreOpen!Ask]_(StoreOpen!hoursVars) => HoursInv'
    <2>1. ASSUME HoursInv, StoreOpen!Ask PROVE HoursInv'
        BY <2>1 DEF HoursInv, StoreOpen!Ask
    <2>2. ASSUME HoursInv, UNCHANGED StoreOpen!hoursVars PROVE HoursInv'
        BY <2>2 DEF HoursInv, StoreOpen!hoursVars
    <2> QED
        BY <2>1, <2>2
<1>3. HoursInv => StoreOpen!OpenForTheBuffer
    BY VerdictSound
<1> QED
    BY <1>1, <1>2, <1>3, PTL DEF StoreOpen!HoursSpec

-----------------------------------------------------------------------------
(***************************************************************************)
(* StoreRouting                                                            *)
(***************************************************************************)
LEMMA RouteCardinality == \A S : Routing!Cardinality(S) = Cardinality(S)
    BY DEF Routing!Cardinality, Cardinality

LEMMA RouteFinite == \A S : Routing!IsFiniteSet(S) <=> IsFiniteSet(S)
    BY DEF Routing!IsFiniteSet, IsFiniteSet

\* As long as the map stays, so does everything that is computed from it.
LEMMA ArrivalsStay ==
    ASSUME map' = map
    PROVE  \A stops : Routing!Arrivals(stops)' = Routing!Arrivals(stops)
<1> SUFFICES ASSUME NEW stops PROVE Routing!Arrivals(stops)' = Routing!Arrivals(stops)
    OBVIOUS
<1> QED
    BY DEF Routing!Arrivals, Routing!Leg

LEMMA RoutesStay ==
    ASSUME map' = map
    PROVE  /\ \A p : Routing!CompleteRoutes(p)' = Routing!CompleteRoutes(p)
           /\ \A a, b : Routing!Faster(a, b)' <=> Routing!Faster(a, b)
           /\ \A a : Routing!Total(a)' = Routing!Total(a)
           /\ \A a : Routing!PreferredCount(a)' = Routing!PreferredCount(a)
<1>1. ASSUME NEW p PROVE Routing!CompleteRoutes(p)' = Routing!CompleteRoutes(p)
    <2> DEFINE pool == UNION {Routing!Shortlist(t, p) : t \in map.types}
    <2>1. \A t : Routing!Shortlist(t, p)' = Routing!Shortlist(t, p)
        <3> SUFFICES ASSUME NEW t PROVE Routing!Shortlist(t, p)' = Routing!Shortlist(t, p)
            OBVIOUS
        <3> QED
            BY DEF Routing!Shortlist, Routing!Rivals, Routing!Nearer, Routing!Hint,
                   Routing!Reachable, Routing!Leg
    <2>2. pool' = pool
        BY <2>1
    <2>3. ASSUME NEW stops PROVE Routing!Drivable(stops)' <=> Routing!Drivable(stops)
        BY ArrivalsStay DEF Routing!Drivable, Routing!Reachable, Routing!Leg
    <2>4. Routing!CompleteRoutes(p) = {stops \in Routing!Tours(pool) : Routing!Drivable(stops)}
        BY DEF Routing!CompleteRoutes
    <2>5. Routing!CompleteRoutes(p)' =
             {stops \in Routing!Tours(pool)' : Routing!Drivable(stops)'}
        BY DEF Routing!CompleteRoutes
    <2>6. Routing!Tours(pool)' = Routing!Tours(pool)
        BY <2>2 DEF Routing!Tours
    <2> HIDE DEF pool
    <2> QED
        BY <2>3, <2>4, <2>5, <2>6
<1>2. ASSUME NEW a PROVE Routing!Total(a)' = Routing!Total(a)
    BY ArrivalsStay DEF Routing!Total, Routing!Leg
<1>3. ASSUME NEW a, NEW b PROVE Routing!Faster(a, b)' <=> Routing!Faster(a, b)
    BY <1>2 DEF Routing!Faster, Routing!SignatureBefore
<1>4. ASSUME NEW a PROVE Routing!PreferredCount(a)' = Routing!PreferredCount(a)
    BY DEF Routing!PreferredCount
<1> QED
    BY <1>1, <1>2, <1>3, <1>4

-----------------------------------------------------------------------------
\* The sum of a row of legs up to each of them.
Sums(n, leg, f) == \A i \in 1 .. n : f[i] = IF i = 1 THEN leg[1] ELSE f[i - 1] + leg[i]

LEMMA SumsExist ==
    \A n \in Nat : \A leg \in [1 .. n -> Int] : \E f \in [1 .. n -> Int] : Sums(n, leg, f)
<1> DEFINE Exist(n) == \A leg \in [1 .. n -> Int] : \E f \in [1 .. n -> Int] : Sums(n, leg, f)
           missing == {n \in Nat : ~Exist(n)}
<1> SUFFICES ASSUME missing # {} PROVE FALSE
    OBVIOUS
<1>1. PICK m \in missing : \A k \in missing : m <= k
    BY LeastExists
<1>2. m \in Nat /\ ~Exist(m)
    OBVIOUS
<1>3. m # 0 => m - 1 \in Nat /\ Exist(m - 1)
    <2>1. m # 0 => m - 1 \in Nat /\ ~(m <= m - 1)
        BY <1>2
    <2> QED
        BY <1>1, <2>1
<1> HIDE DEF missing
<1>4. ASSUME NEW leg \in [1 .. m -> Int]
      PROVE  \E f \in [1 .. m -> Int] : Sums(m, leg, f)
    <2>1. CASE m = 0
        <3>1. [i \in 1 .. m |-> 0] \in [1 .. m -> Int]
            OBVIOUS
        <3>2. Sums(m, leg, [i \in 1 .. m |-> 0])
            BY <2>1 DEF Sums
        <3> QED
            BY <3>1, <3>2
    <2>2. CASE m # 0
        <3> DEFINE front == [i \in 1 .. m - 1 |-> leg[i]]
        <3>1. front \in [1 .. m - 1 -> Int]
            BY <1>2
        <3>2. PICK g \in [1 .. m - 1 -> Int] : Sums(m - 1, front, g)
            BY <1>3, <2>2, <3>1
        <3> DEFINE f == [i \in 1 .. m |->
                            IF i < m THEN g[i]
                            ELSE IF m = 1 THEN leg[1] ELSE g[m - 1] + leg[m]]
        <3>3. f \in [1 .. m -> Int]
            BY <1>2
        <3>4. ASSUME NEW i \in 1 .. m
              PROVE  f[i] = IF i = 1 THEN leg[1] ELSE f[i - 1] + leg[i]
            <4>1. CASE i < m
                <5>1. i \in 1 .. m - 1 /\ (i # 1 => i - 1 \in 1 .. m /\ i - 1 < m)
                    BY <1>2, <4>1
                <5>2. g[i] = IF i = 1 THEN front[1] ELSE g[i - 1] + front[i]
                    BY <3>2, <5>1 DEF Sums
                <5>3. front[i] = leg[i] /\ (i = 1 => front[1] = leg[1])
                    BY <5>1
                <5>4. f[i] = g[i] /\ (i # 1 => f[i - 1] = g[i - 1])
                    BY <4>1, <5>1
                <5> HIDE DEF f, front
                <5> QED
                    BY <5>2, <5>3, <5>4
            <4>2. CASE ~(i < m)
                <5>1. i = m /\ (i # 1 => i - 1 \in 1 .. m /\ i - 1 < m)
                    BY <1>2, <4>2
                <5>2. f[i] = IF m = 1 THEN leg[1] ELSE g[m - 1] + leg[m]
                    BY <5>1
                <5>3. i # 1 => f[i - 1] = g[i - 1]
                    BY <5>1
                <5> HIDE DEF f
                <5> QED
                    BY <5>1, <5>2, <5>3
            <4> QED
                BY <4>1, <4>2
        <3> QED
            BY <3>3, <3>4 DEF Sums
    <2> QED
        BY <2>1, <2>2
<1> QED
    BY <1>2, <1>4

LEMMA SumsOnce ==
    ASSUME NEW n \in Nat, NEW leg, NEW f, NEW g, Sums(n, leg, f), Sums(n, leg, g)
    PROVE  \A i \in 1 .. n : f[i] = g[i]
<1> DEFINE differ == {i \in 1 .. n : f[i] # g[i]}
<1> SUFFICES ASSUME differ # {} PROVE FALSE
    OBVIOUS
<1>0. differ \subseteq Nat
    OBVIOUS
<1> HIDE DEF differ
<1>1. PICK k \in differ : \A j \in differ : k <= j
    BY <1>0, LeastExists
<1> USE DEF differ
<1>2. k \in 1 .. n /\ f[k] # g[k]
    OBVIOUS
<1>3. CASE k = 1
    BY <1>2, <1>3 DEF Sums
<1>4. CASE k # 1
    <2>1. k - 1 \in 1 .. n /\ ~(k <= k - 1)
        BY <1>2, <1>4
    <2>2. f[k - 1] = g[k - 1]
        BY <1>1, <2>1
    <2> QED
        BY <1>2, <1>4, <2>2 DEF Sums
<1> QED
    BY <1>3, <1>4

-----------------------------------------------------------------------------
Stops(n) == [1 .. n -> map.stores]

\* Every leg of the map is a number.
LEMMA LegsAreNumbers ==
    ASSUME Routing!IsMap(map), NEW s \in map.stores, NEW t \in map.stores
    PROVE  /\ Routing!Leg(Routing!Driver, s) \in Int
           /\ Routing!Leg(s, t) \in Int
           /\ Routing!Leg(s, Routing!Customer) \in Int
           /\ s \in Nat /\ s # Routing!Driver
           /\ map.kind[s] \in Int
<1> DEFINE Ends == (map.stores \cup {Routing!Driver}) \X (map.stores \cup {Routing!Customer})
<1>1. map.drive \in [Ends -> Nat \cup {-1}]
    BY DEF Routing!IsMap, Routing!NoLeg
<1>2. /\ <<Routing!Driver, s>> \in Ends /\ <<s, t>> \in Ends
      /\ <<s, Routing!Customer>> \in Ends
    OBVIOUS
<1> HIDE DEF Ends
<1>3. \A leg \in Ends : map.drive[leg] \in Int
    BY <1>1
<1> QED
    BY <1>2, <1>3 DEF Routing!Leg, Routing!IsMap, Routing!Driver

LEMMA ArrivalsAreTimes ==
    ASSUME Routing!IsMap(map), NEW n \in Nat, NEW stops \in Stops(n)
    PROVE  \A i \in 1 .. n : Routing!Arrivals(stops)[i] \in Int
<1> DEFINE leg == [i \in 1 .. n |-> IF i = 1 THEN Routing!Leg(Routing!Driver, stops[1])
                                    ELSE Routing!Leg(stops[i - 1], stops[i])]
           Timed(f) == f = [i \in DOMAIN stops |->
                               IF i = 1 THEN Routing!Leg(Routing!Driver, stops[1])
                               ELSE f[i - 1] + Routing!Leg(stops[i - 1], stops[i])]
           at == Routing!Arrivals(stops)
<1>1. DOMAIN stops = 1 .. n /\ \A i \in 1 .. n : stops[i] \in map.stores
    BY DEF Stops
<1>2. \A i \in 1 .. n : i # 1 => i - 1 \in 1 .. n
    OBVIOUS
<1>3. leg \in [1 .. n -> Int]
    BY <1>1, <1>2, LegsAreNumbers
<1>4. PICK f \in [1 .. n -> Int] : Sums(n, leg, f)
    BY <1>3, SumsExist
<1>5. Timed(f)
    <2>1. ASSUME NEW i \in 1 .. n
          PROVE  f[i] = IF i = 1 THEN Routing!Leg(Routing!Driver, stops[1])
                        ELSE f[i - 1] + Routing!Leg(stops[i - 1], stops[i])
        BY <1>4 DEF Sums
    <2> QED
        BY <1>1, <2>1
<1>6. Timed(at)
    <2>1. at = CHOOSE a : Timed(a)
        BY DEF Routing!Arrivals
    <2> HIDE DEF Timed, at
    <2> QED
        BY <1>5, <2>1, Zenon
<1> HIDE DEF at
<1>7. Sums(n, leg, at)
    BY <1>1, <1>6 DEF Sums
<1> HIDE DEF leg
<1>8. \A i \in 1 .. n : f[i] = at[i]
    BY <1>4, <1>7, SumsOnce
<1> QED
    BY <1>8 DEF at

\* Routes have a length in time, and Preferred stores that can be counted.
LEMMA TotalIsTime ==
    ASSUME Routing!IsMap(map), NEW n \in Nat \ {0}, NEW stops \in Stops(n)
    PROVE  /\ Routing!Total(stops) \in Int
           /\ Routing!PreferredCount(stops) \in Nat
           /\ stops # Routing!NoPlan
<1>1. Len(stops) = n /\ DOMAIN stops = 1 .. n
    BY DEF Stops
<1>2. n \in 1 .. n /\ 1 \in 1 .. n /\ stops[n] \in map.stores /\ stops[1] \in map.stores
    BY DEF Stops
<1>3. Routing!Arrivals(stops)[n] \in Int
    BY <1>2, ArrivalsAreTimes
<1>4. Routing!Leg(stops[n], Routing!Customer) \in Int
    BY <1>2, LegsAreNumbers
<1>5. Routing!Total(stops) \in Int
    BY <1>1, <1>3, <1>4 DEF Routing!Total
<1>6. Routing!PreferredCount(stops) \in Nat
    <2> DEFINE ranked == {i \in DOMAIN stops : map.priority[stops[i]] = "PREFERRED"}
    <2>1. IsFiniteSet(1 .. n)
        BY FS_Interval
    <2>2. IsFiniteSet(ranked)
        BY <1>1, <2>1, FS_Subset
    <2>3. Cardinality(ranked) \in Nat
        BY <2>2, FS_CardinalityType
    <2> QED
        BY <2>3, RouteCardinality DEF Routing!PreferredCount
<1>7. stops # Routing!NoPlan
    <2>1. stops[1] # Routing!Driver
        BY <1>2, LegsAreNumbers
    <2> QED
        BY <2>1 DEF Routing!NoPlan
<1> QED
    BY <1>5, <1>6, <1>7

\* Stores, and so signatures and routes, have a strict total order.
Before(s, t) == map.kind[s] < map.kind[t] \/ (map.kind[s] = map.kind[t] /\ s < t)

LEMMA StoresOrdered ==
    ASSUME Routing!IsMap(map), NEW r \in map.stores, NEW s \in map.stores, NEW t \in map.stores
    PROVE  /\ ~Before(r, r)
           /\ Before(r, s) /\ Before(s, t) => Before(r, t)
           /\ r # s => Before(r, s) \/ Before(s, r)
<1>1. /\ map.kind[r] \in Int /\ map.kind[s] \in Int /\ map.kind[t] \in Int
      /\ r \in Nat /\ s \in Nat /\ t \in Nat
    BY LegsAreNumbers
<1> QED
    BY <1>1 DEF Before

\* The first stop at which two routes part.
PartsAt(a, b, i) == (\A j \in 1 .. i - 1 : a[j] = b[j]) /\ Before(a[i], b[i])

LEMMA SignatureParts ==
    ASSUME NEW n \in Nat, NEW a \in Stops(n), NEW b
    PROVE  Routing!SignatureBefore(a, b) <=> \E i \in 1 .. n : PartsAt(a, b, i)
<1>1. DOMAIN a = 1 .. n
    BY DEF Stops
<1> QED
    BY <1>1 DEF Routing!SignatureBefore, PartsAt, Before

LEMMA SignaturesOrdered ==
    ASSUME Routing!IsMap(map), NEW n \in Nat \ {0},
           NEW a \in Stops(n), NEW b \in Stops(n), NEW c \in Stops(n)
    PROVE  /\ ~Routing!SignatureBefore(a, a)
           /\ Routing!SignatureBefore(a, b) /\ Routing!SignatureBefore(b, c) =>
                  Routing!SignatureBefore(a, c)
           /\ a # b => Routing!SignatureBefore(a, b) \/ Routing!SignatureBefore(b, a)
<1>1. \A i \in 1 .. n : a[i] \in map.stores /\ b[i] \in map.stores /\ c[i] \in map.stores
    BY DEF Stops
<1>2. ~Routing!SignatureBefore(a, a)
    BY <1>1, SignatureParts, StoresOrdered DEF PartsAt
<1>3. ASSUME Routing!SignatureBefore(a, b), Routing!SignatureBefore(b, c)
      PROVE  Routing!SignatureBefore(a, c)
    <2>1. PICK i \in 1 .. n : PartsAt(a, b, i)
        BY <1>3, SignatureParts
    <2>2. PICK k \in 1 .. n : PartsAt(b, c, k)
        BY <1>3, SignatureParts
    <2>3. CASE i < k
        <3>1. i \in 1 .. k - 1 /\ \A j \in 1 .. i - 1 : j \in 1 .. k - 1
            BY <2>3
        <3>2. PartsAt(a, c, i)
            BY <2>1, <2>2, <3>1 DEF PartsAt
        <3> QED
            BY <3>2, SignatureParts
    <2>4. CASE i = k
        <3>1. PartsAt(a, c, i)
            BY <1>1, <2>1, <2>2, <2>4, StoresOrdered DEF PartsAt
        <3> QED
            BY <3>1, SignatureParts
    <2>5. CASE k < i
        <3>1. k \in 1 .. i - 1 /\ \A j \in 1 .. k - 1 : j \in 1 .. i - 1
            BY <2>5
        <3>2. PartsAt(a, c, k)
            BY <2>1, <2>2, <3>1 DEF PartsAt
        <3> QED
            BY <3>2, SignatureParts
    <2> QED
        BY <2>3, <2>4, <2>5
<1>4. ASSUME a # b
      PROVE  Routing!SignatureBefore(a, b) \/ Routing!SignatureBefore(b, a)
    <2> DEFINE apart == {i \in 1 .. n : a[i] # b[i]}
    <2>1. apart # {} /\ apart \subseteq Nat
        BY <1>4 DEF Stops
    <2> HIDE DEF apart
    <2>2. PICK i \in apart : \A j \in apart : i <= j
        BY <2>1, LeastExists
    <2>3. i \in 1 .. n /\ a[i] # b[i]
        BY <2>2 DEF apart
    <2>4. \A j \in 1 .. i - 1 : a[j] = b[j]
        <3> SUFFICES ASSUME NEW j \in 1 .. i - 1 PROVE a[j] = b[j]
            OBVIOUS
        <3>1. j \in 1 .. n /\ ~(i <= j)
            BY <2>3
        <3> QED
            BY <2>2, <3>1 DEF apart
    <2>5. Before(a[i], b[i]) \/ Before(b[i], a[i])
        BY <1>1, <2>3, StoresOrdered
    <2>6. PartsAt(a, b, i) \/ PartsAt(b, a, i)
        BY <2>4, <2>5 DEF PartsAt
    <2> QED
        BY <2>3, <2>6, SignatureParts
<1> QED
    BY <1>2, <1>3, <1>4

LEMMA RoutesOrdered ==
    ASSUME Routing!IsMap(map), NEW n \in Nat \ {0},
           NEW a \in Stops(n), NEW b \in Stops(n), NEW c \in Stops(n)
    PROVE  /\ ~Routing!Faster(a, a)
           /\ Routing!Faster(a, b) /\ Routing!Faster(b, c) => Routing!Faster(a, c)
           /\ a # b => Routing!Faster(a, b) \/ Routing!Faster(b, a)
<1>1. Routing!Total(a) \in Int /\ Routing!Total(b) \in Int /\ Routing!Total(c) \in Int
    BY TotalIsTime
<1>2. /\ ~Routing!SignatureBefore(a, a)
      /\ Routing!SignatureBefore(a, b) /\ Routing!SignatureBefore(b, c) =>
             Routing!SignatureBefore(a, c)
      /\ a # b => Routing!SignatureBefore(a, b) \/ Routing!SignatureBefore(b, a)
    BY SignaturesOrdered
<1> QED
    BY <1>1, <1>2 DEF Routing!Faster

\* More Preferred stores first, then the faster route.
Ahead(a, b) ==
    \/ Routing!PreferredCount(a) > Routing!PreferredCount(b)
    \/ Routing!PreferredCount(a) = Routing!PreferredCount(b) /\ Routing!Faster(a, b)

LEMMA PreferenceOrdered ==
    ASSUME Routing!IsMap(map), NEW n \in Nat \ {0},
           NEW a \in Stops(n), NEW b \in Stops(n), NEW c \in Stops(n)
    PROVE  /\ Ahead(a, b) /\ Ahead(b, c) => Ahead(a, c)
           /\ a # b => Ahead(a, b) \/ Ahead(b, a)
<1>1. /\ Routing!PreferredCount(a) \in Int /\ Routing!PreferredCount(b) \in Int
      /\ Routing!PreferredCount(c) \in Int
    BY TotalIsTime
<1>2. /\ Routing!Faster(a, b) /\ Routing!Faster(b, c) => Routing!Faster(a, c)
      /\ a # b => Routing!Faster(a, b) \/ Routing!Faster(b, a)
    BY RoutesOrdered
<1> QED
    BY <1>1, <1>2 DEF Ahead

-----------------------------------------------------------------------------
\* The winner of a set of routes, and the running winner of those that were met.
Wins(w, S) == w \in S /\ \A q \in S \ {w} : Routing!Faster(w, q)
Leads(w, S) == w \in S /\ \A q \in S \ {w} : Ahead(w, q)

OneWins(w, S) == (S = {} /\ w = Routing!NoPlan) \/ Wins(w, S)
OneLeads(w, S) == (S = {} /\ w = Routing!NoPlan) \/ Leads(w, S)

LEMMA WinnerOnce ==
    ASSUME Routing!IsMap(map), NEW n \in Nat \ {0}, NEW S \in SUBSET Stops(n),
           NEW v, NEW w, Wins(v, S), Wins(w, S)
    PROVE  v = w
<1> SUFFICES ASSUME v # w PROVE FALSE
    OBVIOUS
<1>1. v \in Stops(n) /\ w \in Stops(n) /\ Routing!Faster(v, w) /\ Routing!Faster(w, v)
    BY DEF Wins
<1> QED
    BY <1>1, RoutesOrdered

LEMMA NextWinner ==
    ASSUME Routing!IsMap(map), NEW n \in Nat \ {0}, NEW S \in SUBSET Stops(n),
           NEW s \in Stops(n), s \notin S, NEW w, OneWins(w, S)
    PROVE  OneWins(IF w = Routing!NoPlan \/ Routing!Faster(s, w) THEN s ELSE w, S \cup {s})
<1>1. CASE S = {}
    <2>1. w = Routing!NoPlan
        BY <1>1 DEF OneWins, Wins
    <2> QED
        BY <1>1, <2>1 DEF OneWins, Wins
<1>2. CASE S # {}
    <2>1. w \in S /\ w \in Stops(n) /\ \A q \in S \ {w} : Routing!Faster(w, q)
        BY <1>2 DEF OneWins, Wins
    <2>2. w # Routing!NoPlan /\ s # w
        BY <2>1, TotalIsTime
    <2>3. CASE Routing!Faster(s, w)
        <3>1. \A q \in S : Routing!Faster(s, q)
            BY <2>1, <2>3, RoutesOrdered
        <3> QED
            BY <2>3, <3>1 DEF OneWins, Wins
    <2>4. CASE ~Routing!Faster(s, w)
        <3>1. Routing!Faster(w, s)
            BY <2>1, <2>2, <2>4, RoutesOrdered
        <3> QED
            BY <2>1, <2>2, <2>4, <3>1 DEF OneWins, Wins
    <2> QED
        BY <2>3, <2>4
<1> QED
    BY <1>1, <1>2

LEMMA NextLeader ==
    ASSUME Routing!IsMap(map), NEW n \in Nat \ {0}, NEW S \in SUBSET Stops(n),
           NEW s \in Stops(n), s \notin S, NEW w, OneLeads(w, S)
    PROVE  OneLeads(IF w = Routing!NoPlan \/ Ahead(s, w) THEN s ELSE w, S \cup {s})
<1>1. CASE S = {}
    <2>1. w = Routing!NoPlan
        BY <1>1 DEF OneLeads, Leads
    <2> QED
        BY <1>1, <2>1 DEF OneLeads, Leads
<1>2. CASE S # {}
    <2>1. w \in S /\ w \in Stops(n) /\ \A q \in S \ {w} : Ahead(w, q)
        BY <1>2 DEF OneLeads, Leads
    <2>2. w # Routing!NoPlan /\ s # w
        BY <2>1, TotalIsTime
    <2>3. CASE Ahead(s, w)
        <3>1. \A q \in S : Ahead(s, q)
            BY <2>1, <2>3, PreferenceOrdered
        <3> QED
            BY <2>3, <3>1 DEF OneLeads, Leads
    <2>4. CASE ~Ahead(s, w)
        <3>1. Ahead(w, s)
            BY <2>1, <2>2, <2>4, PreferenceOrdered
        <3> QED
            BY <2>1, <2>2, <2>4, <3>1 DEF OneLeads, Leads
    <2> QED
        BY <2>3, <2>4
<1> QED
    BY <1>1, <1>2

-----------------------------------------------------------------------------
\* The routes of a phase visit a store per type.
LEMMA RoutesAreStops ==
    ASSUME Routing!IsMap(map), map.types # {}, NEW p
    PROVE  /\ Routing!Cardinality(map.types) \in Nat \ {0}
           /\ Routing!CompleteRoutes(p) \in SUBSET Stops(Routing!Cardinality(map.types))
<1>1. IsFiniteSet(map.types)
    BY RouteFinite DEF Routing!IsMap
<1>2. Cardinality(map.types) \in Nat /\ Cardinality(map.types) # 0
    BY <1>1, FS_CardinalityType, FS_EmptySet
<1>3. \A t : Routing!Shortlist(t, p) \subseteq map.stores
    BY DEF Routing!Shortlist, Routing!Rivals
<1>4. UNION {Routing!Shortlist(t, p) : t \in map.types} \subseteq map.stores
    BY <1>3
<1> QED
    BY <1>2, <1>4, RouteCardinality DEF Routing!CompleteRoutes, Routing!Tours, Stops

\* What the two passes single out is what the rules promise.
Contenders(S, w) ==
    {r \in S : Routing!PreferredCount(r) > 0 /\ Routing!Total(r) <= Routing!Total(w) + Extra}

LEMMA BestChosen ==
    ASSUME Routing!IsMap(map), Extra \in Nat, NEW n \in Nat \ {0}, NEW S \in SUBSET Stops(n),
           NEW w, Wins(w, S), NEW l, OneLeads(l, Contenders(S, w))
    PROVE  Routing!Best(S) = IF l # Routing!NoPlan THEN l ELSE w
<1> DEFINE fastest == CHOOSE r \in S : \A q \in S \ {r} : Routing!Faster(r, q)
           near == {r \in S : Routing!Total(r) <= Routing!Total(fastest) + Extra}
           most == CHOOSE k \in {Routing!PreferredCount(r) : r \in near} :
                       \A r \in near : Routing!PreferredCount(r) <= k
           chosen == {r \in near : Routing!PreferredCount(r) = most}
           best == IF l # Routing!NoPlan THEN l ELSE w
<1>1. fastest = w
    <2>1. fastest \in S /\ \A q \in S \ {fastest} : Routing!Faster(fastest, q)
        BY DEF Wins
    <2>2. Wins(fastest, S)
        BY <2>1 DEF Wins
    <2> HIDE DEF fastest
    <2> QED
        BY <2>2, WinnerOnce
<1>2. \A r \in S : /\ Routing!Total(r) \in Int /\ Routing!PreferredCount(r) \in Nat
                   /\ r # Routing!NoPlan
    BY TotalIsTime
<1>3. w \in S
    BY DEF Wins
<1> HIDE DEF fastest
<1>4. near = {r \in S : Routing!Total(r) <= Routing!Total(w) + Extra}
    BY <1>1
<1> HIDE DEF near
<1>5. Contenders(S, w) = {r \in near : Routing!PreferredCount(r) > 0}
    BY <1>4 DEF Contenders
<1>6. w \in near /\ near \subseteq S
    BY <1>2, <1>3, <1>4
<1>7. /\ best \in near
      /\ \A r \in near : Routing!PreferredCount(r) <= Routing!PreferredCount(best)
      /\ \A q \in near \ {best} : Routing!PreferredCount(q) = Routing!PreferredCount(best) =>
                                      Routing!Faster(best, q)
    <2>1. CASE Contenders(S, w) = {}
        <3>1. best = w
            BY <2>1 DEF OneLeads, Leads
        <3>2. \A r \in near : Routing!PreferredCount(r) = 0
            BY <1>2, <1>5, <1>6, <2>1
        <3>3. \A q \in near \ {w} : Routing!Faster(w, q)
            BY <1>6 DEF Wins
        <3> HIDE DEF best
        <3> QED
            BY <1>6, <3>1, <3>2, <3>3
    <2>2. CASE Contenders(S, w) # {}
        <3>1. l \in Contenders(S, w) /\ \A q \in Contenders(S, w) \ {l} : Ahead(l, q)
            BY <2>2 DEF OneLeads, Leads
        <3>2. l \in near /\ Routing!PreferredCount(l) > 0 /\ l # Routing!NoPlan
            BY <1>2, <1>5, <1>6, <3>1
        <3>3. best = l
            BY <3>2
        <3> HIDE DEF best
        <3>4. ASSUME NEW r \in near
              PROVE  /\ Routing!PreferredCount(r) <= Routing!PreferredCount(l)
                     /\ (r # l /\ Routing!PreferredCount(r) = Routing!PreferredCount(l)) =>
                            Routing!Faster(l, r)
            <4>1. Routing!PreferredCount(r) \in Nat /\ Routing!PreferredCount(l) \in Nat
                BY <1>2, <1>6, <3>2
            <4>2. CASE r = l
                BY <4>1, <4>2
            <4>3. CASE r # l /\ Routing!PreferredCount(r) > 0
                <5>1. Ahead(l, r)
                    BY <1>5, <3>1, <4>3
                <5> QED
                    BY <4>1, <5>1 DEF Ahead
            <4>4. CASE r # l /\ ~(Routing!PreferredCount(r) > 0)
                BY <3>2, <4>1, <4>4
            <4> QED
                BY <4>2, <4>3, <4>4
        <3> QED
            BY <3>2, <3>3, <3>4
    <2> QED
        BY <2>1, <2>2
<1> HIDE DEF best
<1>8. most = Routing!PreferredCount(best)
    <2> DEFINE counts == {Routing!PreferredCount(r) : r \in near}
    <2>1. /\ Routing!PreferredCount(best) \in counts
          /\ \A r \in near : Routing!PreferredCount(r) <= Routing!PreferredCount(best)
        BY <1>7
    <2>2. most \in counts /\ \A r \in near : Routing!PreferredCount(r) <= most
        BY <2>1
    <2> HIDE DEF most
    <2>3. PICK r \in near : most = Routing!PreferredCount(r)
        BY <2>2
    <2>4. most \in Nat /\ Routing!PreferredCount(best) \in Nat
        BY <1>2, <1>6, <1>7, <2>3
    <2>5. most <= Routing!PreferredCount(best) /\ Routing!PreferredCount(best) <= most
        BY <1>7, <2>2, <2>3
    <2> QED
        BY <2>4, <2>5
<1> HIDE DEF most
<1>9. Wins(best, chosen)
    BY <1>7, <1>8 DEF Wins
<1>10. Routing!Best(S) = CHOOSE r \in chosen : \A q \in chosen \ {r} : Routing!Faster(r, q)
    BY DEF Routing!Best, fastest, near, most
<1>11. Wins(Routing!Best(S), chosen)
    <2>1. \E r \in chosen : \A q \in chosen \ {r} : Routing!Faster(r, q)
        BY <1>9 DEF Wins
    <2> HIDE DEF chosen
    <2> QED
        BY <1>10, <2>1 DEF Wins
<1>12. chosen \in SUBSET Stops(n)
    BY <1>6
<1> HIDE DEF chosen
<1> QED
    BY <1>9, <1>11, <1>12, WinnerOnce DEF best

-----------------------------------------------------------------------------
Searched == map.types # {} /\ Routing!Cardinality(map.types) <= MaxStops

\* What the planner returns once both passes are over.
Settled ==
    \/ phase = "fallback" /\ Routing!CompleteRoutes("fallback") = {} /\ plan = Routing!NoPlan
    \/ \E w, l : /\ Wins(w, Routing!CompleteRoutes(phase))
                 /\ OneLeads(l, Contenders(Routing!CompleteRoutes(phase), w))
                 /\ plan = IF l # Routing!NoPlan THEN l ELSE w

RoutingInv ==
    /\ map \in RouteMaps
    /\ phase \in {"primary", "fallback"}
    /\ pass \in {"shortlist", "baseline", "preferred", "done"}
    /\ phase = "fallback" => Routing!CompleteRoutes("primary") = {}
    /\ pass # "done" => plan = Routing!NoPlan
    /\ pass \in {"shortlist", "baseline"} => preferred = Routing!NoPlan
    /\ pass = "shortlist" => baseline = Routing!NoPlan
    /\ pass \in {"baseline", "preferred"} =>
           Searched /\ unseen \subseteq Routing!CompleteRoutes(phase)
    /\ pass = "baseline" => OneWins(baseline, Routing!CompleteRoutes(phase) \ unseen)
    /\ pass = "preferred" =>
           /\ Wins(baseline, Routing!CompleteRoutes(phase))
           /\ OneLeads(preferred, Contenders(Routing!CompleteRoutes(phase) \ unseen, baseline))
    /\ pass = "done" /\ Searched => Settled

LEMMA InvStays ==
    ASSUME map' = map
    PROVE  /\ \A w, S : Wins(w, S)' <=> Wins(w, S)
           /\ \A w, S : OneWins(w, S)' <=> OneWins(w, S)
           /\ \A w, S : OneLeads(w, S)' <=> OneLeads(w, S)
           /\ \A S, w : Contenders(S, w)' = Contenders(S, w)
           /\ Searched' <=> Searched
<1>1. \A w, S : Wins(w, S)' <=> Wins(w, S)
    BY RoutesStay DEF Wins
<1>2. \A a, b : Ahead(a, b)' <=> Ahead(a, b)
    BY RoutesStay DEF Ahead
<1>3. \A w, S : OneWins(w, S)' <=> OneWins(w, S)
    BY <1>1 DEF OneWins
<1>4. \A w, S : OneLeads(w, S)' <=> OneLeads(w, S)
    BY <1>2 DEF OneLeads, Leads
<1>5. \A S, w : Contenders(S, w)' = Contenders(S, w)
    BY RoutesStay DEF Contenders
<1> QED
    BY <1>1, <1>3, <1>4, <1>5 DEF Searched

LEMMA TrivialKeeps ==
    ASSUME Routing!StoreRoutingAssumption, RoutingInv, Routing!Trivial
    PROVE  RoutingInv'
<1>1. map' = map /\ phase' = phase /\ pass' = "done" /\ preferred' = preferred
    BY DEF Routing!Trivial
<1>2. ~Searched
    <2>1. MaxStops \in Nat /\ Routing!IsMap(map)
        BY DEF RoutingInv, Routing!StoreRoutingAssumption
    <2>2. map.types # {} => Routing!Cardinality(map.types) \in Nat
        BY <2>1, RoutesAreStops
    <2> QED
        BY <2>1, <2>2 DEF Routing!Trivial, Searched
<1> QED
    BY <1>1, <1>2, InvStays, RoutesStay DEF RoutingInv

LEMMA SearchBegins ==
    ASSUME Routing!StoreRoutingAssumption, RoutingInv, Routing!runBoundedPhase
    PROVE  RoutingInv'
<1>1. /\ map' = map /\ phase' = phase /\ pass' = "baseline" /\ preferred' = preferred
      /\ plan' = plan /\ baseline' = baseline /\ pass = "shortlist"
      /\ unseen' = Routing!CompleteRoutes(phase)
    BY DEF Routing!runBoundedPhase
<1>2. Searched
    BY DEF Routing!runBoundedPhase, Searched
<1>3. baseline' = Routing!NoPlan /\ Routing!CompleteRoutes(phase) \ unseen' = {}
    BY <1>1 DEF RoutingInv
<1>4. OneWins(baseline', Routing!CompleteRoutes(phase) \ unseen')
    BY <1>3 DEF OneWins
<1> QED
    BY <1>1, <1>2, <1>4, InvStays, RoutesStay DEF RoutingInv

LEMMA BaselineGoesOn ==
    ASSUME Routing!StoreRoutingAssumption, RoutingInv, NEW stops, Routing!VisitBaseline(stops)
    PROVE  RoutingInv'
<1> DEFINE n == Routing!Cardinality(map.types)
           routes == Routing!CompleteRoutes(phase)
           seen == routes \ unseen
<1>1. /\ map' = map /\ phase' = phase /\ pass' = "baseline" /\ preferred' = preferred
      /\ plan' = plan /\ pass = "baseline" /\ stops \in unseen /\ unseen' = unseen \ {stops}
      /\ baseline' = IF baseline = Routing!NoPlan \/ Routing!Faster(stops, baseline)
                     THEN stops ELSE baseline
    BY DEF Routing!VisitBaseline
<1>2. Routing!IsMap(map) /\ Searched /\ map.types # {}
    BY <1>1 DEF RoutingInv, Searched, Routing!StoreRoutingAssumption
<1>3. n \in Nat \ {0} /\ routes \in SUBSET Stops(n)
    BY <1>2, RoutesAreStops
<1>4. unseen \subseteq routes /\ OneWins(baseline, seen)
    BY <1>1 DEF RoutingInv
<1>5. /\ routes \ unseen' = seen \cup {stops}
      /\ stops \notin seen /\ stops \in Stops(n) /\ seen \in SUBSET Stops(n)
    BY <1>1, <1>3, <1>4
<1> HIDE DEF n, seen
<1>6. OneWins(baseline', seen \cup {stops})
    BY <1>1, <1>2, <1>3, <1>4, <1>5, NextWinner
<1>7. unseen' \subseteq routes
    BY <1>1, <1>4
<1> QED
    BY <1>1, <1>2, <1>5, <1>6, <1>7, InvStays, RoutesStay DEF RoutingInv

LEMMA BaselineDone ==
    ASSUME Routing!StoreRoutingAssumption, RoutingInv, Routing!BaselineEnds
    PROVE  RoutingInv'
<1> DEFINE routes == Routing!CompleteRoutes(phase)
<1>1. /\ map' = map /\ preferred' = preferred /\ plan' = plan /\ baseline' = baseline
      /\ pass = "baseline" /\ unseen = {}
    BY DEF Routing!BaselineEnds
<1>2. Routing!IsMap(map) /\ Searched /\ map.types # {}
    BY <1>1 DEF RoutingInv, Searched, Routing!StoreRoutingAssumption
<1>3. OneWins(baseline, routes) /\ preferred = Routing!NoPlan /\ plan = Routing!NoPlan
    <2>1. routes \ unseen = routes
        BY <1>1
    <2> QED
        BY <1>1, <2>1 DEF RoutingInv
<1>4. CASE baseline # Routing!NoPlan
    <2>1. pass' = "preferred" /\ unseen' = routes /\ phase' = phase
        BY <1>4 DEF Routing!BaselineEnds
    <2>2. Wins(baseline, routes)
        BY <1>3, <1>4 DEF OneWins
    <2>3. OneLeads(preferred, Contenders(routes \ unseen', baseline))
        BY <1>3, <2>1 DEF OneLeads, Contenders
    <2> QED
        BY <1>1, <1>2, <2>1, <2>2, <2>3, InvStays, RoutesStay DEF RoutingInv
<1>5. CASE baseline = Routing!NoPlan
    <2>1. /\ unseen' = unseen /\ phase' = "fallback"
          /\ pass' = IF phase = "primary" THEN "shortlist" ELSE "done"
        BY <1>5 DEF Routing!BaselineEnds
    <2>2. routes = {}
        <3>1. ~Wins(baseline, routes)
            <4> SUFFICES ASSUME baseline \in routes PROVE FALSE
                BY DEF Wins
            <4>1. baseline \in Stops(Routing!Cardinality(map.types))
                BY <1>2, RoutesAreStops
            <4>2. Routing!Cardinality(map.types) \in Nat \ {0}
                BY <1>2, RoutesAreStops
            <4> QED
                BY <1>2, <1>5, <4>1, <4>2, TotalIsTime
        <3> QED
            BY <1>3, <3>1 DEF OneWins
    <2>3. Routing!CompleteRoutes("primary") = {}
        BY <2>2 DEF RoutingInv
    <2>4. phase # "primary" => Routing!CompleteRoutes("fallback") = {}
        BY <2>2 DEF RoutingInv
    <2>5. phase # "primary" => Settled'
        BY <1>1, <1>3, <2>1, <2>4, RoutesStay DEF Settled
    <2> QED
        BY <1>1, <1>3, <1>5, <2>1, <2>3, <2>5, InvStays, RoutesStay DEF RoutingInv
<1> QED
    BY <1>4, <1>5

LEMMA PreferredGoesOn ==
    ASSUME Routing!StoreRoutingAssumption, RoutingInv, NEW stops, Routing!VisitPreferred(stops)
    PROVE  RoutingInv'
<1> DEFINE n == Routing!Cardinality(map.types)
           routes == Routing!CompleteRoutes(phase)
           met == Contenders(routes \ unseen, baseline)
           won == /\ Routing!Competes(stops)
                  /\ \/ preferred = Routing!NoPlan
                     \/ Routing!PreferredCount(stops) > Routing!PreferredCount(preferred)
                     \/ /\ Routing!PreferredCount(stops) = Routing!PreferredCount(preferred)
                        /\ Routing!Faster(stops, preferred)
<1>1. /\ map' = map /\ phase' = phase /\ pass' = "preferred" /\ baseline' = baseline
      /\ plan' = plan /\ pass = "preferred" /\ stops \in unseen /\ unseen' = unseen \ {stops}
      /\ preferred' = IF won THEN stops ELSE preferred
    BY DEF Routing!VisitPreferred
<1>2. Routing!IsMap(map) /\ Searched /\ map.types # {}
    BY <1>1 DEF RoutingInv, Searched, Routing!StoreRoutingAssumption
<1>3. n \in Nat \ {0} /\ routes \in SUBSET Stops(n)
    BY <1>2, RoutesAreStops
<1>4. unseen \subseteq routes /\ Wins(baseline, routes) /\ OneLeads(preferred, met)
    BY <1>1 DEF RoutingInv
<1>5. won <=> Routing!Competes(stops)
              /\ (preferred = Routing!NoPlan \/ Ahead(stops, preferred))
    BY DEF Ahead
<1> HIDE DEF won
<1>6. OneLeads(preferred', Contenders(routes \ unseen', baseline))
    <2>1. routes \ unseen' = (routes \ unseen) \cup {stops}
        BY <1>1, <1>4
    <2>2. CASE Routing!Competes(stops)
        <3>1. Contenders(routes \ unseen', baseline) = met \cup {stops}
            BY <2>1, <2>2 DEF Contenders, Routing!Competes
        <3>2. met \in SUBSET Stops(n) /\ stops \in Stops(n) /\ stops \notin met
            BY <1>1, <1>3, <1>4 DEF Contenders
        <3>3. preferred' = IF preferred = Routing!NoPlan \/ Ahead(stops, preferred)
                           THEN stops ELSE preferred
            BY <1>1, <1>5, <2>2
        <3> HIDE DEF met, n
        <3> QED
            BY <1>2, <1>3, <1>4, <3>1, <3>2, <3>3, NextLeader
    <2>3. CASE ~Routing!Competes(stops)
        <3>1. Contenders(routes \ unseen', baseline) = met
            BY <2>1, <2>3 DEF Contenders, Routing!Competes
        <3> QED
            BY <1>1, <1>4, <1>5, <2>3, <3>1
    <2> QED
        BY <2>2, <2>3
<1>7. unseen' \subseteq routes
    BY <1>1, <1>4
<1> HIDE DEF met, n
<1> QED
    BY <1>1, <1>2, <1>4, <1>6, <1>7, InvStays, RoutesStay DEF RoutingInv

LEMMA PreferredDone ==
    ASSUME RoutingInv, Routing!PreferredEnds
    PROVE  RoutingInv'
<1>1. /\ map' = map /\ phase' = phase /\ pass' = "done" /\ pass = "preferred" /\ unseen = {}
      /\ plan' = IF preferred # Routing!NoPlan THEN preferred ELSE baseline
    BY DEF Routing!PreferredEnds
<1>2. Routing!CompleteRoutes(phase) \ unseen = Routing!CompleteRoutes(phase)
    BY <1>1
<1>3. /\ Wins(baseline, Routing!CompleteRoutes(phase))
      /\ OneLeads(preferred, Contenders(Routing!CompleteRoutes(phase), baseline))
    BY <1>1, <1>2 DEF RoutingInv
<1>4. /\ Routing!CompleteRoutes(phase)' = Routing!CompleteRoutes(phase)
      /\ \A w, S : Wins(w, S)' <=> Wins(w, S)
      /\ \A w, S : OneLeads(w, S)' <=> OneLeads(w, S)
      /\ \A S, w : Contenders(S, w)' = Contenders(S, w)
    BY <1>1, InvStays, RoutesStay
<1>5. Settled'
    BY <1>1, <1>3, <1>4 DEF Settled
<1> QED
    BY <1>1, <1>5, InvStays, RoutesStay DEF RoutingInv

LEMMA RoutingKeeps ==
    ASSUME Routing!StoreRoutingAssumption,
           RoutingInv, [Routing!RoutingNext]_(Routing!routingVars)
    PROVE  RoutingInv'
<1>1. CASE Routing!Trivial
    BY <1>1, TrivialKeeps
<1>2. CASE Routing!runBoundedPhase
    BY <1>2, SearchBegins
<1>3. CASE Routing!BaselineEnds
    BY <1>3, BaselineDone
<1>4. CASE Routing!PreferredEnds
    BY <1>4, PreferredDone
<1>5. ASSUME NEW stops \in unseen, Routing!VisitBaseline(stops) PROVE RoutingInv'
    BY <1>5, BaselineGoesOn
<1>6. ASSUME NEW stops \in unseen, Routing!VisitPreferred(stops) PROVE RoutingInv'
    BY <1>6, PreferredGoesOn
<1>7. CASE UNCHANGED Routing!routingVars
    <2>1. /\ map' = map /\ phase' = phase /\ pass' = pass /\ unseen' = unseen
          /\ baseline' = baseline /\ preferred' = preferred /\ plan' = plan
        BY <1>7 DEF Routing!routingVars
    <2>2. Settled' <=> Settled
        BY <2>1, InvStays, RoutesStay DEF Settled
    <2> QED
        BY <2>1, <2>2, InvStays, RoutesStay DEF RoutingInv
<1> QED
    BY <1>1, <1>2, <1>3, <1>4, <1>5, <1>6, <1>7 DEF Routing!RoutingNext

LEMMA PlanSound ==
    ASSUME Routing!StoreRoutingAssumption, RoutingInv
    PROVE  Routing!PlanIsBest
<1> SUFFICES ASSUME pass = "done", Searched
             PROVE  plan = IF Routing!CompleteRoutes(phase) = {} THEN Routing!NoPlan
                           ELSE Routing!Best(Routing!CompleteRoutes(phase))
    BY DEF Routing!PlanIsBest, Searched
<1>1. Settled /\ Routing!IsMap(map) /\ Extra \in Nat
    BY DEF RoutingInv, Routing!StoreRoutingAssumption
<1>2. CASE phase = "fallback" /\ Routing!CompleteRoutes("fallback") = {}
           /\ plan = Routing!NoPlan
    BY <1>2
<1>3. ASSUME NEW w, NEW l, Wins(w, Routing!CompleteRoutes(phase)),
             OneLeads(l, Contenders(Routing!CompleteRoutes(phase), w)),
             plan = IF l # Routing!NoPlan THEN l ELSE w
      PROVE  plan = IF Routing!CompleteRoutes(phase) = {} THEN Routing!NoPlan
                    ELSE Routing!Best(Routing!CompleteRoutes(phase))
    <2> DEFINE n == Routing!Cardinality(map.types)
               S == Routing!CompleteRoutes(phase)
    <2>1. n \in Nat \ {0} /\ S \in SUBSET Stops(n)
        BY <1>1, RoutesAreStops DEF Searched
    <2>2. S # {}
        BY <1>3 DEF Wins
    <2>3. Wins(w, S) /\ OneLeads(l, Contenders(S, w))
        BY <1>3
    <2> HIDE DEF S, n
    <2>4. Routing!Best(S) = IF l # Routing!NoPlan THEN l ELSE w
        BY <1>1, <2>1, <2>3, BestChosen
    <2> QED
        BY <1>3, <2>2, <2>4 DEF S
<1> QED
    BY <1>1, <1>2, <1>3 DEF Settled

-----------------------------------------------------------------------------
\* A shortlist that is not longer than it may be keeps every store.
LEMMA AllKept ==
    ASSUME Routing!StoreRoutingAssumption, Routing!IsMap(map), NEW type, NEW priority,
           Routing!Cardinality(Routing!Rivals(type, priority)) <= Shortlisted,
           NEW s \in Routing!Rivals(type, priority)
    PROVE  Routing!Cardinality({t \in Routing!Rivals(type, priority) : Routing!Nearer(t, s)})
               < Shortlisted
<1> DEFINE rivals == Routing!Rivals(type, priority)
           nearer == {t \in rivals : Routing!Nearer(t, s)}
<1>1. Shortlisted \in Nat
    BY DEF Routing!StoreRoutingAssumption
<1>2. IsFiniteSet(rivals)
    <2>1. IsFiniteSet(map.stores) /\ rivals \subseteq map.stores
        BY RouteFinite DEF Routing!IsMap, Routing!Rivals
    <2> QED
        BY <2>1, FS_Subset
<1>3. s \notin nearer
    <2>1. s \in map.stores
        BY DEF Routing!Rivals
    <2>2. Routing!Leg(Routing!Driver, s) \in Int /\ s \in Nat
        BY <2>1, LegsAreNumbers
    <2>3. ~Routing!Nearer(s, s)
        BY <2>2 DEF Routing!Nearer
    <2> QED
        BY <2>3
<1> HIDE DEF rivals
<1>4. nearer \subseteq rivals \ {s} /\ s \in rivals
    BY <1>3 DEF rivals
<1> HIDE DEF nearer
<1>5. IsFiniteSet(rivals \ {s}) /\ Cardinality(rivals \ {s}) = Cardinality(rivals) - 1
    BY <1>2, <1>4, FS_RemoveElement
<1>6. Cardinality(nearer) <= Cardinality(rivals \ {s}) /\ Cardinality(nearer) \in Nat
    <2>1. IsFiniteSet(nearer)
        BY <1>4, <1>5, FS_Subset
    <2> QED
        BY <1>4, <1>5, <2>1, FS_Subset, FS_CardinalityType
<1>7. Cardinality(rivals) \in Nat /\ Cardinality(rivals) <= Shortlisted
    BY <1>2, FS_CardinalityType, RouteCardinality DEF rivals
<1>8. Cardinality(nearer) < Shortlisted
    BY <1>1, <1>5, <1>6, <1>7
<1> QED
    BY <1>8, RouteCardinality DEF nearer, rivals

Roomy == \A type \in map.types, priority \in Routing!Priorities :
             Routing!Cardinality(Routing!Rivals(type, priority)) <= Shortlisted

\* Then every drivable tour of the stores a phase allows is a route of the phase.
LEMMA NoneMissed ==
    ASSUME Routing!StoreRoutingAssumption, Routing!IsMap(map), Roomy, NEW p,
           NEW pool, \A s \in pool : /\ s \in map.stores
                                     /\ Routing!Reachable(Routing!Driver, s)
                                     /\ map.priority[s] \in Routing!Allowed(p),
           NEW r \in Routing!Tours(pool), Routing!Drivable(r)
    PROVE  r \in Routing!CompleteRoutes(p)
<1> DEFINE n == Routing!Cardinality(map.types)
           kept == UNION {Routing!Shortlist(t, p) : t \in map.types}
<1>1. r \in [1 .. n -> pool] /\ {map.kind[r[i]] : i \in DOMAIN r} = map.types
    BY DEF Routing!Tours
<1>2. DOMAIN r = 1 .. n
    BY <1>1
<1> HIDE DEF n
<1>3. ASSUME NEW i \in 1 .. n PROVE r[i] \in kept
    <2> DEFINE s == r[i]
               type == map.kind[s]
               priority == map.priority[s]
    <2>1. s \in pool /\ type \in map.types
        BY <1>1, <1>2
    <2>2. /\ s \in map.stores /\ Routing!Reachable(Routing!Driver, s)
          /\ priority \in Routing!Allowed(p)
        BY <2>1
    <2>3. priority \in Routing!Priorities
        BY <2>2 DEF Routing!IsMap
    <2>4. s \in Routing!Rivals(type, priority)
        BY <2>2 DEF Routing!Rivals
    <2>5. Routing!Cardinality(Routing!Rivals(type, priority)) <= Shortlisted
        BY <2>1, <2>3 DEF Roomy
    <2> HIDE DEF s, type, priority
    <2>6. Routing!Cardinality({t \in Routing!Rivals(type, priority) : Routing!Nearer(t, s)})
              < Shortlisted
        BY <2>4, <2>5, AllKept
    <2>7. s \in Routing!Shortlist(type, p)
        <3> DEFINE near(q) == {x \in Routing!Rivals(type, q) :
                                  Routing!Cardinality({t \in Routing!Rivals(type, q) :
                                                          Routing!Nearer(t, x)}) < Shortlisted}
        <3>1. s \in near(priority)
            BY <2>4, <2>6
        <3>2. Routing!Shortlist(type, p) = UNION {near(q) : q \in Routing!Allowed(p)}
            BY DEF Routing!Shortlist
        <3> HIDE DEF near
        <3> QED
            BY <2>2, <3>1, <3>2
    <2> QED
        BY <2>1, <2>7 DEF s
<1> HIDE DEF kept
<1>4. r \in [1 .. n -> kept]
    BY <1>1, <1>3
<1>5. r \in Routing!Tours(kept)
    BY <1>1, <1>4 DEF Routing!Tours, n
<1> QED
    BY <1>5 DEF Routing!CompleteRoutes, kept

LEMMA FallbackSound ==
    ASSUME Routing!StoreRoutingAssumption, RoutingInv
    PROVE  Routing!FallbackLast
<1> DEFINE within == {s \in map.stores : Routing!Reachable(Routing!Driver, s)}
           others == {s \in within : map.priority[s] # "FALLBACK"}
<1> SUFFICES ASSUME pass = "done", Searched, Roomy
             PROVE  /\ plan = Routing!NoPlan =>
                           ~ \E r \in Routing!Tours(within) : Routing!Drivable(r)
                    /\ (plan # Routing!NoPlan
                        /\ \E i \in DOMAIN plan : map.priority[plan[i]] = "FALLBACK") =>
                           ~ \E r \in Routing!Tours(others) : Routing!Drivable(r)
    BY DEF Routing!FallbackLast, Searched, Roomy
<1>1. Settled /\ Routing!IsMap(map)
    BY DEF RoutingInv, Routing!StoreRoutingAssumption
<1>2. \A s \in within : map.priority[s] \in Routing!Allowed("fallback")
    BY <1>1 DEF Routing!IsMap, Routing!Allowed
<1>3. \A s \in others : map.priority[s] \in Routing!Allowed("primary")
    BY <1>1 DEF Routing!IsMap, Routing!Allowed, Routing!Priorities
<1>4. CASE phase = "fallback" /\ Routing!CompleteRoutes("fallback") = {}
           /\ plan = Routing!NoPlan
    <2>1. ASSUME NEW r \in Routing!Tours(within), Routing!Drivable(r) PROVE FALSE
        <3>1. r \in Routing!CompleteRoutes("fallback")
            BY <1>1, <1>2, <2>1, NoneMissed
        <3> QED
            BY <1>4, <3>1
    <2> QED
        BY <1>4, <2>1
<1>5. ASSUME NEW w, NEW l, Wins(w, Routing!CompleteRoutes(phase)),
             OneLeads(l, Contenders(Routing!CompleteRoutes(phase), w)),
             plan = IF l # Routing!NoPlan THEN l ELSE w
      PROVE  /\ plan # Routing!NoPlan
             /\ (\E i \in DOMAIN plan : map.priority[plan[i]] = "FALLBACK") =>
                    ~ \E r \in Routing!Tours(others) : Routing!Drivable(r)
    <2>1. plan \in Routing!CompleteRoutes(phase)
        BY <1>5 DEF Wins, OneLeads, Leads, Contenders
    <2>2. plan # Routing!NoPlan
        BY <1>1, <2>1, RoutesAreStops, TotalIsTime DEF Searched
    <2>3. ASSUME NEW i \in DOMAIN plan, map.priority[plan[i]] = "FALLBACK",
                 NEW r \in Routing!Tours(others), Routing!Drivable(r)
          PROVE  FALSE
        <3>1. r \in Routing!CompleteRoutes("primary")
            BY <1>1, <1>3, <2>3, NoneMissed
        <3>2. phase = "primary"
            BY <3>1 DEF RoutingInv
        <3>3. plan \in Routing!Tours(UNION {Routing!Shortlist(t, phase) : t \in map.types})
            BY <2>1 DEF Routing!CompleteRoutes
        <3>4. plan[i] \in UNION {Routing!Shortlist(t, phase) : t \in map.types}
            BY <2>3, <3>3 DEF Routing!Tours
        <3>5. PICK t \in map.types : plan[i] \in Routing!Shortlist(t, phase)
            BY <3>4
        <3>6. map.priority[plan[i]] \in Routing!Allowed("primary")
            BY <3>2, <3>5 DEF Routing!Shortlist, Routing!Rivals
        <3> QED
            BY <2>3, <3>6 DEF Routing!Allowed
    <2> QED
        BY <2>2, <2>3
<1> QED
    BY <1>1, <1>4, <1>5 DEF Settled

LEMMA RoutingAlways ==
    ASSUME Routing!StoreRoutingAssumption
    PROVE  Routing!RoutingSpec => [](Routing!PlanIsBest /\ Routing!FallbackLast)
<1>1. Routing!RoutingInit => RoutingInv
    BY DEF Routing!RoutingInit, RoutingInv
<1>2. RoutingInv /\ [Routing!RoutingNext]_(Routing!routingVars) => RoutingInv'
    BY RoutingKeeps
<1>3. RoutingInv => Routing!PlanIsBest /\ Routing!FallbackLast
    BY PlanSound, FallbackSound
<1> QED
    BY <1>1, <1>2, <1>3, PTL DEF Routing!RoutingSpec

-----------------------------------------------------------------------------
(***************************************************************************)
(* What the shop answers                                                   *)
(***************************************************************************)
LEMMA ShopNumbers ==
    ASSUME Shop!BusinessHoursAssumption
    PROVE  Day \in Nat \ {0} /\ Days \in Nat \ {0} /\ Shop!Week \in Nat \ {0}
<1>1. Day \in Nat \ {0} /\ Days \in Nat \ {0}
    BY DEF Shop!BusinessHoursAssumption
<1> QED
    BY <1>1, CycleLength DEF Shop!Week

\* A period of weekly hours, of which neither end is left open.
Weekday(p) == /\ p.open \in Nat /\ p.open < Shop!Week
              /\ p.close \in Nat /\ p.close < Shop!Week

\* The week of a moment, and the moment's place in it.
Sunday(t) == (t \div Shop!Week) * Shop!Week

LEMMA InItsWeek ==
    ASSUME Shop!BusinessHoursAssumption, NEW t \in Int
    PROVE  /\ Sunday(t) \in Int /\ t % Shop!Week \in 0 .. Shop!Week - 1
           /\ t = Sunday(t) + (t % Shop!Week)
<1> DEFINE W == Shop!Week
<1>1. W \in Nat \ {0}
    BY ShopNumbers
<1> HIDE DEF W
<1>2. /\ t = W * (t \div W) + (t % W)
      /\ t \div W \in Int /\ t % W \in 0 .. W - 1
    BY <1>1, Quotients
<1>3. (t \div W) * W = W * (t \div W) /\ (t \div W) * W \in Int
    BY <1>1, <1>2
<1> QED
    BY <1>2, <1>3 DEF Sunday, W

LEMMA WeekdayFacts ==
    ASSUME Shop!BusinessHoursAssumption, NEW p, Weekday(p)
    PROVE  /\ Shop!Week \in Nat \ {0}
           /\ p.open \in 0 .. Shop!Week - 1 /\ p.close \in 0 .. Shop!Week - 1
<1> DEFINE W == Shop!Week
<1>1. W \in Nat \ {0}
    BY ShopNumbers
<1>2. p.open \in Nat /\ p.open < W /\ p.close \in Nat /\ p.close < W
    BY DEF Weekday
<1> HIDE DEF W
<1>3. p.open \in 0 .. W - 1 /\ p.close \in 0 .. W - 1
    BY <1>1, <1>2
<1> QED
    BY <1>1, <1>3 DEF W

\* How many minutes after its opening a period closes.
ShutsAt(p) == IF p.close <= p.open THEN p.close + Shop!Week ELSE p.close

LEMMA RepeatedAre ==
    ASSUME NEW p, NEW t, NEW i
    PROVE  i \in Shop!Repeated(p, t) <=>
               \E k \in {-Shop!Week, 0, Shop!Week} :
                   i = [start |-> Sunday(t) + p.open + k, end |-> Sunday(t) + ShutsAt(p) + k]
BY DEF Shop!Repeated, Sunday, ShutsAt

\* The minute is in one of the intervals exactly when the period covers it.
LEMMA IntervalHolds ==
    ASSUME Shop!BusinessHoursAssumption, NEW t \in Int, NEW p, Weekday(p)
    PROVE  (\E i \in Shop!Repeated(p, t) : i.start <= t /\ t < i.end) <=> Shop!InWeek(p, t)
<1> DEFINE W == Shop!Week
           m == t % W
           Around(k) == p.open + k <= m /\ m < ShutsAt(p) + k
<1>1. /\ W \in Nat \ {0} /\ Sunday(t) \in Int /\ m \in 0 .. W - 1 /\ t = Sunday(t) + m
      /\ p.open \in 0 .. W - 1 /\ p.close \in 0 .. W - 1
    BY WeekdayFacts, InItsWeek
<1>2. Shop!InWeek(p, t) <=> \/ p.open < p.close /\ p.open <= m /\ m < p.close
                            \/ p.open >= p.close /\ (p.open <= m \/ m < p.close)
    BY <1>1 DEF Shop!InWeek
<1> HIDE DEF m, W
<1>3. ShutsAt(p) = IF p.close <= p.open THEN p.close + W ELSE p.close
    BY DEF ShutsAt, W
<1>4. ASSUME NEW k \in Int
      PROVE  LET i == [start |-> Sunday(t) + p.open + k, end |-> Sunday(t) + ShutsAt(p) + k]
             IN  i.start <= t /\ t < i.end <=> Around(k)
    <2>1. ShutsAt(p) \in Int
        BY <1>1, <1>3
    <2>2. /\ Sunday(t) + p.open + k <= t <=> p.open + k <= m
          /\ t < Sunday(t) + ShutsAt(p) + k <=> m < ShutsAt(p) + k
        BY <1>1, <2>1
    <2> QED
        BY <2>2
<1>5. -W \in Int /\ 0 \in Int /\ W \in Int
    BY <1>1
<1>6. (\E i \in Shop!Repeated(p, t) : i.start <= t /\ t < i.end)
          <=> Around(-W) \/ Around(0) \/ Around(W)
    <2>1. ASSUME NEW i \in Shop!Repeated(p, t), i.start <= t /\ t < i.end
          PROVE  Around(-W) \/ Around(0) \/ Around(W)
        <3>1. PICK k \in {-W, 0, W} :
                 i = [start |-> Sunday(t) + p.open + k, end |-> Sunday(t) + ShutsAt(p) + k]
            BY RepeatedAre DEF W
        <3>2. Around(k)
            BY <1>4, <1>5, <2>1, <3>1
        <3> HIDE DEF Around
        <3> QED
            BY <3>2
    <2>2. ASSUME NEW k \in {-W, 0, W}, Around(k)
          PROVE  \E i \in Shop!Repeated(p, t) : i.start <= t /\ t < i.end
        <3> DEFINE i == [start |-> Sunday(t) + p.open + k, end |-> Sunday(t) + ShutsAt(p) + k]
        <3>1. i \in Shop!Repeated(p, t)
            BY RepeatedAre DEF W
        <3>2. i.start <= t /\ t < i.end
            BY <1>4, <1>5, <2>2
        <3> HIDE DEF i
        <3> QED
            BY <3>1, <3>2
    <2> HIDE DEF Around
    <2> QED
        BY <2>1, <2>2
<1>7. ~Around(W)
    BY <1>1, <1>3
<1>8. Around(0) <=> p.open <= m /\ (p.close <= p.open \/ m < p.close)
    BY <1>1, <1>3
<1>9. Around(-W) <=> p.close <= p.open /\ m < p.close
    BY <1>1, <1>3
<1> HIDE DEF Around
<1>10. p.open >= p.close <=> ~(p.open < p.close)
    BY <1>1
<1>11. p.close <= p.open <=> ~(p.open < p.close)
    BY <1>1
<1> QED
    BY <1>2, <1>6, <1>7, <1>8, <1>9, <1>10, <1>11

\* The minute at which an interval starts is covered, and one starts within a week.
LEMMA StartsCovered ==
    ASSUME Shop!BusinessHoursAssumption, NEW t \in Int, NEW p, Weekday(p),
           NEW i \in Shop!Repeated(p, t)
    PROVE  i.start \in Int /\ Shop!InWeek(p, i.start)
<1> DEFINE W == Shop!Week
<1>1. /\ W \in Nat \ {0} /\ Sunday(t) \in Int /\ t \div W \in Int
      /\ p.open \in 0 .. W - 1 /\ p.close \in 0 .. W - 1
    <2>1. W \in Nat \ {0} /\ p.open \in 0 .. W - 1 /\ p.close \in 0 .. W - 1
        BY WeekdayFacts
    <2>2. Sunday(t) \in Int
        BY InItsWeek
    <2> HIDE DEF W
    <2>3. t \div W \in Int
        BY <2>1, Quotients
    <2> QED
        BY <2>1, <2>2, <2>3
<1>2. PICK k \in {-W, 0, W} : i.start = Sunday(t) + p.open + k
    BY RepeatedAre
<1> HIDE DEF W
<1>3. PICK q \in Int : Sunday(t) + k = W * q
    <2>1. Sunday(t) = W * (t \div W)
        BY <1>1 DEF Sunday, W
    <2> DEFINE q == t \div W
    <2>2. q \in Int /\ W \in Int
        BY <1>1
    <2> HIDE DEF q
    <2>3. /\ W * q + 0 = W * q
          /\ W * q + (-W) = W * (q - 1)
          /\ W * q + W = W * (q + 1)
        BY <2>2
    <2>4. q \in Int /\ q - 1 \in Int /\ q + 1 \in Int
        BY <2>2
    <2>5. CASE k = -W
        BY <2>1, <2>3, <2>4, <2>5 DEF q
    <2>6. CASE k = 0
        BY <2>1, <2>3, <2>4, <2>6 DEF q
    <2>7. CASE k = W
        BY <2>1, <2>3, <2>4, <2>7 DEF q
    <2> QED
        BY <2>5, <2>6, <2>7
<1>4. i.start = W * q + p.open /\ W * q \in Int
    <2>1. k \in Int /\ W * q \in Int
        BY <1>1
    <2> QED
        BY <1>1, <1>2, <1>3, <2>1
<1>5. i.start \in Int /\ i.start % W = p.open
    <2>1. (W * q + p.open) % W = p.open
        BY <1>1, RemainderOf
    <2> QED
        BY <1>1, <1>4, <2>1
<1> QED
    BY <1>1, <1>5 DEF Shop!InWeek, W

LEMMA StartsSoon ==
    ASSUME Shop!BusinessHoursAssumption, NEW t \in Int, NEW p, Weekday(p)
    PROVE  \E i \in Shop!Repeated(p, t) : t < i.start /\ i.start <= t + Shop!Week
<1> DEFINE W == Shop!Week
           from(k) == [start |-> Sunday(t) + p.open + k, end |-> Sunday(t) + ShutsAt(p) + k]
<1>1. /\ W \in Nat \ {0} /\ Sunday(t) \in Int /\ t % W \in 0 .. W - 1
      /\ t = Sunday(t) + (t % W) /\ p.open \in 0 .. W - 1
    BY WeekdayFacts, InItsWeek
<1>2. from(0) \in Shop!Repeated(p, t) /\ from(W) \in Shop!Repeated(p, t)
    BY RepeatedAre
<1>3. from(0).start = Sunday(t) + p.open + 0 /\ from(W).start = Sunday(t) + p.open + W
    OBVIOUS
<1> HIDE DEF W, from
<1>4. \/ t < Sunday(t) + p.open + 0 /\ Sunday(t) + p.open + 0 <= t + W
      \/ t < Sunday(t) + p.open + W /\ Sunday(t) + p.open + W <= t + W
    BY <1>1
<1> QED
    BY <1>2, <1>3, <1>4 DEF W

\* A minute of the coming week that is covered while this one is not has an interval
\* that starts on the way to it.
LEMMA StartsBetween ==
    ASSUME Shop!BusinessHoursAssumption, NEW t \in Int, NEW p, Weekday(p),
           NEW u \in Int, t <= u, u <= t + Shop!Week,
           Shop!InWeek(p, u), ~Shop!InWeek(p, t)
    PROVE  \E i \in Shop!Repeated(p, t) : t < i.start /\ i.start <= u
<1> DEFINE W == Shop!Week
           m == t % W
           n == u % W
           from(k) == [start |-> Sunday(t) + p.open + k, end |-> Sunday(t) + ShutsAt(p) + k]
<1>1. /\ W \in Nat \ {0} /\ Sunday(t) \in Int /\ m \in 0 .. W - 1 /\ t = Sunday(t) + m
      /\ p.open \in 0 .. W - 1 /\ p.close \in 0 .. W - 1
    BY WeekdayFacts, InItsWeek
<1>2. n \in 0 .. W - 1
    BY InItsWeek
<1>3. /\ \/ p.open < p.close /\ p.open <= n /\ n < p.close
         \/ p.open >= p.close /\ (p.open <= n \/ n < p.close)
      /\ ~(p.open < p.close /\ p.open <= m /\ m < p.close)
      /\ ~(p.open >= p.close /\ (p.open <= m \/ m < p.close))
    BY <1>1 DEF Shop!InWeek
<1>4. from(0) \in Shop!Repeated(p, t) /\ from(W) \in Shop!Repeated(p, t)
    BY RepeatedAre
<1>5. from(0).start = Sunday(t) + p.open + 0 /\ from(W).start = Sunday(t) + p.open + W
    OBVIOUS
<1>6. u - t \in 0 .. W /\ u = t + (u - t)
    <2>1. u <= t + W /\ W \in Int
        BY <1>1
    <2> HIDE DEF W
    <2> QED
        BY <2>1
<1>7. u - t # W /\ n = IF m + (u - t) < W THEN m + (u - t) ELSE m + (u - t) - W
    <2>1. CASE u - t \in 0 .. W - 1
        <3>1. (t + (u - t)) % W = IF m + (u - t) < W THEN m + (u - t) ELSE m + (u - t) - W
            BY <1>1, <2>1, LaterRemainder
        <3> QED
            BY <1>6, <2>1, <3>1
    <2>2. CASE u - t = W
        <3>1. n = m
            <4>1. t \div W \in Int /\ t = W * (t \div W) + m
                BY <1>1, Quotients
            <4>2. u = W * ((t \div W) + 1) + m /\ (t \div W) + 1 \in Int
                <5>1. W * ((t \div W) + 1) = W * (t \div W) + W /\ W * (t \div W) \in Int
                    BY <1>1, <4>1
                <5> HIDE DEF W, m
                <5> QED
                    BY <1>1, <2>2, <4>1, <5>1
            <4> HIDE DEF W, m
            <4>3. (W * ((t \div W) + 1) + m) % W = m
                BY <1>1, <4>2, RemainderOf
            <4> QED
                BY <4>2, <4>3
        <3> QED
            BY <1>3, <3>1
    <2> QED
        BY <1>1, <1>6, <2>1, <2>2
<1> HIDE DEF W, m, n, from
<1>8. \/ t < Sunday(t) + p.open + 0 /\ Sunday(t) + p.open + 0 <= u
      \/ t < Sunday(t) + p.open + W /\ Sunday(t) + p.open + W <= u
    <2>1. CASE m + (u - t) < W
        BY <1>1, <1>2, <1>3, <1>6, <1>7, <2>1
    <2>2. CASE ~(m + (u - t) < W)
        BY <1>1, <1>2, <1>3, <1>6, <1>7, <2>2
    <2> QED
        BY <2>1, <2>2
<1> QED
    BY <1>4, <1>5, <1>8

-----------------------------------------------------------------------------
\* A schedule that was saved is one of Google's answers, with the minute it was read.
SavedOnce(s) ==
    /\ s.fetched \in Nat
    /\ \E google \in ShopAnswers : s.current = google.current /\ s.regular = google.regular

LEMMA HoursShape ==
    ASSUME Shop!BusinessHoursAssumption, NEW s, SavedOnce(s)
    PROVE  /\ s.current.kind = "none" \/ Shop!IsWeekly(s.current) \/ Shop!IsDated(s.current)
           /\ s.regular.kind = "none" \/ Shop!IsWeekly(s.regular)
BY DEF Shop!BusinessHoursAssumption, SavedOnce

\* The current hours reach to the end of a day, so a day is within them or after them.
LEMMA MultiplesApart ==
    ASSUME NEW n \in Nat \ {0}, NEW a \in Int, NEW b \in Int, a * n < b * n
    PROVE  a * n + n <= b * n
<1>1. a + 1 <= b
    OBVIOUS
<1>2. (a + 1) * n <= b * n
    BY <1>1
<1>3. (a + 1) * n = a * n + n
    OBVIOUS
<1> QED
    BY <1>2, <1>3

LEMMA DayBegins ==
    ASSUME Shop!BusinessHoursAssumption, NEW t \in Nat
    PROVE  /\ Shop!DayStart(t) \in Int /\ t \div Day \in Int
           /\ Shop!DayStart(t) <= t /\ t < Shop!DayStart(t) + Day
<1>1. Day \in Nat \ {0}
    BY ShopNumbers
<1>2. /\ t = Day * (t \div Day) + (t % Day)
      /\ t \div Day \in Int /\ t % Day \in 0 .. Day - 1
    BY <1>1, Quotients
<1>3. Shop!DayStart(t) = Day * (t \div Day) /\ Shop!DayStart(t) \in Int
    BY <1>1, <1>2 DEF Shop!DayStart
<1> QED
    BY <1>1, <1>2, <1>3

LEMMA CurrentReach ==
    ASSUME Shop!BusinessHoursAssumption, NEW s, s.fetched \in Nat, NEW t \in Nat
    PROVE  /\ Shop!LastCurrent(s) \in Int
           /\ Shop!DayStart(t) < Shop!LastCurrent(s) <=> t < Shop!LastCurrent(s)
           /\ s.fetched < Shop!LastCurrent(s)
           /\ s.fetched <= t => Shop!LastCurrent(s) <= t + Shop!Week
<1> DEFINE f == s.fetched \div Day
           d == t \div Day
           last == Shop!LastCurrent(s)
<1>1. Day \in Nat \ {0} /\ Days \in Nat \ {0} /\ Shop!Week \in Nat \ {0}
    BY ShopNumbers
<1>2. /\ Shop!DayStart(t) \in Int /\ d \in Int
      /\ Shop!DayStart(t) <= t /\ t < Shop!DayStart(t) + Day
      /\ Shop!DayStart(s.fetched) \in Int /\ f \in Int
      /\ Shop!DayStart(s.fetched) <= s.fetched
      /\ s.fetched < Shop!DayStart(s.fetched) + Day
    BY DayBegins
<1>3. last = Shop!DayStart(s.fetched) + Shop!Week /\ last \in Int
    BY <1>1, <1>2 DEF Shop!LastCurrent
<1>4. Day <= Shop!Week
    BY <1>1, CycleLength DEF Shop!Week
<1>5. Shop!DayStart(t) < last => Shop!DayStart(t) + Day <= last
    <2>1. Shop!DayStart(t) = d * Day /\ Shop!DayStart(s.fetched) = f * Day
        BY DEF Shop!DayStart
    <2> HIDE DEF d, f
    <2>2. Shop!Week = Days * Day
        BY <1>1 DEF Shop!Week
    <2>3. f + Days \in Int /\ (f + Days) * Day = f * Day + Days * Day
        BY <1>1, <1>2
    <2>4. last = (f + Days) * Day
        BY <1>3, <2>1, <2>2, <2>3
    <2> QED
        BY <1>1, <1>2, <2>1, <2>3, <2>4, MultiplesApart
<1> HIDE DEF last
<1> QED
    BY <1>1, <1>2, <1>3, <1>4, <1>5 DEF last

\* While the current hours reach, or once they no longer do, the hours stay the same.
LEMMA SameHours ==
    ASSUME Shop!BusinessHoursAssumption, NEW s, s.fetched \in Nat,
           NEW t \in Nat, NEW u \in Nat, t <= u,
           Shop!UsesCurrent(s, t) => u < Shop!LastCurrent(s)
    PROVE  /\ Shop!UsesCurrent(s, u) <=> Shop!UsesCurrent(s, t)
           /\ Shop!HoursAt(s, u) = Shop!HoursAt(s, t)
<1>1. \A v \in Nat : Shop!DayStart(v) < Shop!LastCurrent(s) <=> v < Shop!LastCurrent(s)
    BY CurrentReach
<1>2. Shop!LastCurrent(s) \in Int
    BY CurrentReach
<1>3. Shop!UsesCurrent(s, t) <=> t < Shop!LastCurrent(s) /\ s.current.kind # "none"
    BY <1>1 DEF Shop!UsesCurrent
<1>4. Shop!UsesCurrent(s, u) <=> u < Shop!LastCurrent(s) /\ s.current.kind # "none"
    BY <1>1 DEF Shop!UsesCurrent
<1>5. Shop!UsesCurrent(s, u) <=> Shop!UsesCurrent(s, t)
    BY <1>2, <1>3, <1>4
<1> QED
    BY <1>5 DEF Shop!HoursAt

-----------------------------------------------------------------------------
Starts(s, t) == {i.start : i \in {j \in Shop!Intervals(s, t) : j.start > t}}

Reach(s, t) == IF Shop!UsesCurrent(s, t) THEN Shop!LastCurrent(s) - 1 ELSE t + Shop!Week

\* AnsweredAsPublished, at one minute.
AnsweredAt(s, t) ==
    LET next == Shop!nextOpen(s, t)
    IN  /\ Shop!isOpen(s, t) <=> Shop!Covered(s, t)
        /\ ~Shop!isOpen(s, t) =>
               IF next = -1 THEN \A u \in t .. Reach(s, t) : ~Shop!Covered(s, u)
               ELSE /\ Shop!Covered(s, next)
                    /\ \A u \in t .. next - 1 : ~Shop!Covered(s, u)

\* What the starts of the intervals have to do with what is covered.
StartsTell(s, t) ==
    /\ \A x \in Starts(s, t) :
          /\ x \in Nat /\ t < x
          /\ (Shop!UsesCurrent(s, t) => x < Shop!LastCurrent(s)) => Shop!Covered(s, x)
    /\ \A u \in t .. Reach(s, t) : Shop!Covered(s, u) => \E x \in Starts(s, t) : x <= u
    /\ ~Shop!UsesCurrent(s, t) /\ Starts(s, t) # {} =>
           \E x \in Starts(s, t) : x <= Reach(s, t)

LEMMA NextFollows ==
    ASSUME Shop!BusinessHoursAssumption, NEW s, s.fetched \in Nat, NEW t \in Nat,
           Shop!isOpen(s, t) <=> Shop!Covered(s, t),
           ~Shop!isOpen(s, t) => StartsTell(s, t)
    PROVE  AnsweredAt(s, t)
<1> SUFFICES ASSUME ~Shop!isOpen(s, t)
             PROVE  IF Shop!nextOpen(s, t) = -1
                    THEN \A u \in t .. Reach(s, t) : ~Shop!Covered(s, u)
                    ELSE /\ Shop!Covered(s, Shop!nextOpen(s, t))
                         /\ \A u \in t .. Shop!nextOpen(s, t) - 1 : ~Shop!Covered(s, u)
    BY DEF AnsweredAt
<1> DEFINE starts == Starts(s, t)
           e == Shop!Earliest(starts)
           last == Shop!LastCurrent(s)
<1>1. StartsTell(s, t)
    OBVIOUS
<1>2. starts # {} => e \in starts /\ \A x \in starts : e <= x
    <2>1. starts \subseteq Nat
        BY <1>1 DEF StartsTell
    <2> HIDE DEF starts
    <2>2. starts # {} => \E x \in starts : \A y \in starts : x <= y
        BY <2>1, LeastExists
    <2> QED
        BY <2>2 DEF Shop!Earliest
<1>3. Shop!nextOpen(s, t) = IF starts = {} THEN -1
                            ELSE IF Shop!UsesCurrent(s, t) /\ e >= last THEN -1 ELSE e
    BY DEF Shop!nextOpen, Starts
<1>4. last \in Int /\ Shop!Week \in Nat
    BY CurrentReach, ShopNumbers
<1>5. \A x \in starts : x \in Nat /\ t < x
    BY <1>1 DEF StartsTell
<1>6. Reach(s, t) = IF Shop!UsesCurrent(s, t) THEN last - 1 ELSE t + Shop!Week
    BY DEF Reach
<1> HIDE DEF starts, e, last
<1>7. CASE starts = {}
    BY <1>1, <1>3, <1>7 DEF StartsTell, starts
<1>8. CASE starts # {} /\ Shop!UsesCurrent(s, t) /\ e >= last
    <2>1. Shop!nextOpen(s, t) = -1
        BY <1>3, <1>8
    <2>2. ASSUME NEW u \in t .. Reach(s, t), Shop!Covered(s, u) PROVE FALSE
        <3>1. PICK x \in starts : x <= u
            BY <1>1, <2>2 DEF StartsTell, starts
        <3>2. e <= x /\ u <= last - 1 /\ x \in Nat /\ e \in Nat
            BY <1>2, <1>4, <1>5, <1>6, <1>8
        <3> QED
            BY <1>4, <1>8, <3>1, <3>2
    <2> QED
        BY <2>1, <2>2
<1>9. CASE starts # {} /\ ~(Shop!UsesCurrent(s, t) /\ e >= last)
    <2>1. Shop!nextOpen(s, t) = e /\ e \in Nat
        BY <1>2, <1>3, <1>5, <1>9
    <2>2. Shop!UsesCurrent(s, t) => e < last
        BY <1>4, <1>9, <2>1
    <2>3. Shop!Covered(s, e)
        BY <1>1, <1>2, <1>9, <2>2 DEF StartsTell, starts, last
    <2>4. e - 1 <= Reach(s, t)
        <3>1. CASE Shop!UsesCurrent(s, t)
            BY <1>4, <1>6, <2>1, <2>2, <3>1
        <3>2. CASE ~Shop!UsesCurrent(s, t)
            <4>1. PICK x \in starts : x <= Reach(s, t)
                BY <1>1, <1>9, <3>2 DEF StartsTell, starts
            <4> QED
                BY <1>2, <1>4, <1>5, <1>6, <2>1, <3>2, <4>1
        <3> QED
            BY <3>1, <3>2
    <2>5. ASSUME NEW u \in t .. e - 1, Shop!Covered(s, u) PROVE FALSE
        <3>1. u \in t .. Reach(s, t)
            BY <1>4, <1>6, <2>1, <2>4
        <3>2. PICK x \in starts : x <= u
            BY <1>1, <2>5, <3>1 DEF StartsTell, starts
        <3>3. e <= x /\ x \in Nat
            BY <1>2, <1>5, <3>2
        <3> QED
            BY <2>1, <3>2, <3>3
    <2> QED
        BY <2>1, <2>3, <2>5
<1> QED
    BY <1>7, <1>8, <1>9

\* Hours by date: the current ones, up to where they reach.
LEMMA DatedAnswered ==
    ASSUME Shop!BusinessHoursAssumption, NEW s, SavedOnce(s), NEW t \in Nat,
           Shop!Answers(s, t), Shop!HoursAt(s, t).kind = "dated"
    PROVE  AnsweredAt(s, t)
<1> DEFINE h == Shop!HoursAt(s, t)
           last == Shop!LastCurrent(s)
           ends(p) == Shop!Earlier(Shop!DatedClose(s, p), last)
           interval(p) == [start |-> p.open, end |-> ends(p)]
           covers(p, u) == p.open <= u /\ (p.close = -1 \/ u < p.close)
<1>1. s.fetched \in Nat /\ last \in Int
    BY CurrentReach DEF SavedOnce
<1>2. Shop!UsesCurrent(s, t) /\ h = s.current
    BY HoursShape DEF Shop!HoursAt, Shop!IsWeekly
<1>3. t < last
    BY <1>1, <1>2, CurrentReach DEF Shop!UsesCurrent
<1>4. \A u \in Nat : t <= u /\ u < last => Shop!HoursAt(s, u) = h
    BY <1>1, SameHours
<1>5. ASSUME NEW p \in h.periods
      PROVE  /\ p.open \in Nat /\ p.close \in Nat \cup {-1}
             /\ p.close # -1 => p.open < p.close
             /\ interval(p).start = p.open /\ interval(p).end = ends(p)
             /\ ends(p) = IF p.close = -1 \/ p.close >= last THEN last ELSE p.close
    <2>1. Shop!IsDated(h)
        BY <1>2, HoursShape DEF Shop!IsWeekly
    <2>2. p.open \in Nat /\ p.close \in Nat \cup {-1}
        BY <2>1 DEF Shop!IsDated, Shop!IsPeriod
    <2>3. Shop!PeriodValid(s, "dated", p)
        BY DEF Shop!Answers
    <2>4. p.close # -1 => p.open < p.close
        BY <2>2, <2>3 DEF Shop!PeriodValid, Shop!DatedClose
    <2>5. ends(p) = IF p.close = -1 \/ p.close >= last THEN last ELSE p.close
        BY <1>1, <2>2 DEF Shop!Earlier, Shop!DatedClose
    <2> QED
        BY <2>2, <2>4, <2>5
<1>6. Shop!Intervals(s, t) = {interval(p) : p \in h.periods}
    BY DEF Shop!Intervals
<1>7. ASSUME NEW u \in Nat, t <= u, u < last
      PROVE  Shop!Covered(s, u) <=> \E p \in h.periods : covers(p, u)
    BY <1>4, <1>7 DEF Shop!Covered
<1> HIDE DEF h, last, ends, interval, covers
<1>8. Shop!isOpen(s, t) <=> \E p \in h.periods : covers(p, t)
    <2>1. ASSUME NEW p \in h.periods
          PROVE  interval(p).start <= t /\ t < interval(p).end <=> covers(p, t)
        BY <1>1, <1>3, <1>5 DEF covers
    <2> QED
        BY <1>6, <2>1 DEF Shop!isOpen
<1>9. Shop!isOpen(s, t) <=> Shop!Covered(s, t)
    BY <1>3, <1>7, <1>8
<1>10. ASSUME ~Shop!isOpen(s, t) PROVE StartsTell(s, t)
    <2>1. \A x : x \in Starts(s, t) <=> \E p \in h.periods : x = p.open /\ t < p.open
        BY <1>5, <1>6 DEF Starts
    <2>2. ASSUME NEW x \in Starts(s, t)
          PROVE  /\ x \in Nat /\ t < x
                 /\ (Shop!UsesCurrent(s, t) => x < Shop!LastCurrent(s)) => Shop!Covered(s, x)
        <3>1. PICK p \in h.periods : x = p.open /\ t < p.open
            BY <2>1
        <3>2. covers(p, x)
            BY <1>5, <3>1 DEF covers
        <3> QED
            BY <1>2, <1>5, <1>7, <3>1, <3>2 DEF last
    <2>3. ASSUME NEW u \in t .. Reach(s, t), Shop!Covered(s, u)
          PROVE  \E x \in Starts(s, t) : x <= u
        <3>1. u \in Nat /\ t <= u /\ u < last
            BY <1>1, <1>2, <2>3 DEF Reach, last
        <3>2. PICK p \in h.periods : covers(p, u)
            BY <1>7, <2>3, <3>1
        <3>3. ~covers(p, t)
            BY <1>8, <1>10
        <3>4. t < p.open /\ p.open <= u
            BY <1>5, <3>1, <3>2, <3>3 DEF covers
        <3> QED
            BY <2>1, <3>4
    <2> QED
        BY <1>2, <2>2, <2>3 DEF StartsTell
<1> QED
    BY <1>1, <1>9, <1>10, NextFollows

\* Hours of every week.
LEMMA WeeklyAnswered ==
    ASSUME Shop!BusinessHoursAssumption, NEW s, SavedOnce(s), NEW t \in Nat,
           Shop!Answers(s, t), Shop!HoursAt(s, t).kind = "weekly"
    PROVE  AnsweredAt(s, t)
<1> DEFINE h == Shop!HoursAt(s, t)
           last == Shop!LastCurrent(s)
           always(p) == {[start |-> Shop!DayStart(t) - Shop!Week,
                          end |-> Shop!DayStart(t) + Shop!Week]}
           spans(p) == IF p.close = -1 THEN always(p) ELSE Shop!Repeated(p, t)
<1>1. /\ s.fetched \in Nat /\ last \in Int /\ Shop!Week \in Nat \ {0}
      /\ s.fetched <= t /\ last <= t + Shop!Week
    BY CurrentReach, ShopNumbers DEF SavedOnce, Shop!Answers
<1>2. Shop!IsWeekly(h)
    BY HoursShape DEF Shop!HoursAt, Shop!IsDated
<1>3. ASSUME NEW p \in h.periods PROVE p.close = -1 \/ Weekday(p)
    BY <1>2 DEF Shop!IsWeekly, Shop!IsPeriod, Weekday
<1>4. Shop!Intervals(s, t) = UNION {spans(p) : p \in h.periods}
    BY DEF Shop!Intervals
<1>5. \A u \in Nat : t <= u /\ (Shop!UsesCurrent(s, t) => u < last) => Shop!HoursAt(s, u) = h
    BY <1>1, SameHours
<1>6. ASSUME NEW u \in Nat, t <= u, Shop!UsesCurrent(s, t) => u < last
      PROVE  Shop!Covered(s, u) <=> \E p \in h.periods : Shop!InWeek(p, u)
    BY <1>5, <1>6 DEF Shop!Covered
<1>7. Shop!UsesCurrent(s, t) => t < last
    BY <1>1, CurrentReach DEF Shop!UsesCurrent
<1> HIDE DEF h, last, spans
<1>8. Shop!isOpen(s, t) <=>
         \E p \in h.periods : \E i \in spans(p) : i.start <= t /\ t < i.end
    BY <1>4 DEF Shop!isOpen
<1>9. CASE \E p \in h.periods : p.close = -1
    <2>1. PICK p \in h.periods : p.close = -1
        BY <1>9
    <2> DEFINE i == [start |-> Shop!DayStart(t) - Shop!Week, end |-> Shop!DayStart(t) + Shop!Week]
    <2>2. i \in spans(p)
        BY <2>1 DEF spans
    <2>3. i.start <= t /\ t < i.end
        <3>1. Shop!DayStart(t) \in Int /\ Shop!DayStart(t) <= t /\ t < Shop!DayStart(t) + Day
            BY DayBegins
        <3>2. Day \in Nat \ {0} /\ Day <= Shop!Week
            BY ShopNumbers, CycleLength DEF Shop!Week
        <3> QED
            BY <1>1, <3>1, <3>2
    <2>4. Shop!isOpen(s, t)
        BY <1>8, <2>2, <2>3
    <2>5. Shop!InWeek(p, t)
        BY <2>1 DEF Shop!InWeek
    <2>6. Shop!Covered(s, t)
        BY <1>6, <1>7, <2>5
    <2> QED
        BY <1>1, <2>4, <2>6, NextFollows
<1>10. CASE ~ \E p \in h.periods : p.close = -1
    <2>1. \A p \in h.periods : Weekday(p) /\ spans(p) = Shop!Repeated(p, t)
        BY <1>3, <1>10 DEF spans
    <2>2. Shop!isOpen(s, t) <=> \E p \in h.periods : Shop!InWeek(p, t)
        BY <1>8, <2>1, IntervalHolds
    <2>3. Shop!isOpen(s, t) <=> Shop!Covered(s, t)
        BY <1>6, <1>7, <2>2
    <2>4. ASSUME ~Shop!isOpen(s, t) PROVE StartsTell(s, t)
        <3>1. \A x : x \in Starts(s, t) <=>
                 \E p \in h.periods : \E i \in Shop!Repeated(p, t) : x = i.start /\ i.start > t
            BY <1>4, <2>1 DEF Starts
        <3>2. ASSUME NEW x \in Starts(s, t)
              PROVE  /\ x \in Nat /\ t < x
                     /\ (Shop!UsesCurrent(s, t) => x < Shop!LastCurrent(s)) =>
                            Shop!Covered(s, x)
            <4>1. PICK p \in h.periods :
                     \E i \in Shop!Repeated(p, t) : x = i.start /\ i.start > t
                BY <3>1
            <4>2. PICK i \in Shop!Repeated(p, t) : x = i.start /\ i.start > t
                BY <4>1
            <4>3. x \in Int /\ Shop!InWeek(p, x)
                BY <2>1, <4>2, StartsCovered
            <4>4. x \in Nat /\ t < x
                BY <4>2, <4>3
            <4> QED
                BY <1>6, <4>3, <4>4 DEF last
        <3>3. ASSUME NEW u \in t .. Reach(s, t), Shop!Covered(s, u)
              PROVE  \E x \in Starts(s, t) : x <= u
            <4>1. /\ u \in Nat /\ t <= u /\ u <= t + Shop!Week
                  /\ Shop!UsesCurrent(s, t) => u < last
                <5>1. Reach(s, t) = IF Shop!UsesCurrent(s, t) THEN last - 1 ELSE t + Shop!Week
                    BY DEF Reach, last
                <5> QED
                    BY <1>1, <5>1
            <4>2. PICK p \in h.periods : Shop!InWeek(p, u)
                BY <1>6, <3>3, <4>1
            <4>3. ~Shop!InWeek(p, t) /\ Weekday(p)
                BY <2>1, <2>2, <2>4
            <4>4. PICK i \in Shop!Repeated(p, t) : t < i.start /\ i.start <= u
                BY <4>1, <4>2, <4>3, StartsBetween
            <4>5. i.start > t
                BY <2>1, <4>4, StartsCovered
            <4> QED
                BY <3>1, <4>4, <4>5
        <3>4. ASSUME ~Shop!UsesCurrent(s, t), Starts(s, t) # {}
              PROVE  \E x \in Starts(s, t) : x <= Reach(s, t)
            <4>1. PICK p \in h.periods : TRUE
                BY <3>1, <3>4
            <4>2. PICK i \in Shop!Repeated(p, t) : t < i.start /\ i.start <= t + Shop!Week
                BY <2>1, StartsSoon
            <4>3. i.start > t
                BY <2>1, <4>2, StartsCovered
            <4> QED
                BY <3>1, <3>4, <4>2, <4>3 DEF Reach
        <3> QED
            BY <3>2, <3>3, <3>4 DEF StartsTell
    <2> QED
        BY <1>1, <2>3, <2>4, NextFollows
<1> QED
    BY <1>9, <1>10

-----------------------------------------------------------------------------
\* What is saved was read from Google before now, and answered when it was read.
SavedInv ==
    /\ \A p \in Processes : refresh[p].began <= now
    /\ schedule # Shop!NotSaved =>
           /\ SavedOnce(schedule) /\ schedule.fetched <= now
           /\ Shop!Answers(schedule, schedule.fetched)

LEMMA SavedBegins == Shop!Init => SavedInv
BY DEF Shop!Init, SavedInv

LEMMA SavedGoesOn ==
    ASSUME Shop!BusinessHoursAssumption, ShopInv, SavedInv, [Shop!Next]_Shop!vars
    PROVE  SavedInv'
<1>1. now \in Nat /\ \A p \in Processes : refresh[p].began \in Nat /\ refresh[p].began <= now
    BY DEF ShopInv, SavedInv
<1>2. schedule # Shop!NotSaved => schedule.fetched \in Nat
    BY DEF SavedInv, SavedOnce
<1>3. DOMAIN refresh = Processes
    BY DEF ShopInv
<1>4. CASE Shop!Tick
    <2>1. now' = now + 1 /\ refresh' = refresh /\ schedule' = schedule
        BY <1>4 DEF Shop!Tick
    <2>2. \A p \in Processes : refresh'[p].began <= now'
        BY <1>1, <2>1
    <2>3. schedule' # Shop!NotSaved => schedule'.fetched <= now'
        BY <1>1, <1>2, <2>1 DEF SavedInv
    <2> QED
        BY <2>1, <2>2, <2>3 DEF SavedInv, SavedOnce
<1>5. ASSUME NEW p \in Processes, Shop!run(p) PROVE SavedInv'
    <2>1. now' = now /\ schedule' = schedule
          /\ refresh' = [refresh EXCEPT ![p] = [pc |-> "due", began |-> now]]
        BY <1>5 DEF Shop!run
    <2>2. \A q \in Processes : refresh'[q].began <= now'
        BY <1>1, <1>3, <2>1
    <2> QED
        BY <2>1, <2>2 DEF SavedInv, SavedOnce
<1>6. ASSUME NEW p \in Processes, Shop!claimSlot(p) PROVE SavedInv'
    <2>1. /\ now' = now /\ schedule' = schedule
          /\ \/ refresh' = [refresh EXCEPT ![p].pc = "calling"]
             \/ refresh' = [refresh EXCEPT ![p] = [pc |-> "idle", began |-> 0]]
        BY <1>6 DEF Shop!claimSlot
    <2>2. \A q \in Processes : refresh'[q].began <= now'
        BY <1>1, <1>3, <2>1 DEF ShopInv
    <2> QED
        BY <2>1, <2>2 DEF SavedInv, SavedOnce
<1>7. ASSUME NEW p \in Processes, Shop!refreshBusinessHours(p) PROVE SavedInv'
    <2>1. /\ now' = now
          /\ refresh' = [refresh EXCEPT ![p] = [pc |-> "idle", began |-> 0]]
        BY <1>7 DEF Shop!refreshBusinessHours
    <2>2. \A q \in Processes : refresh'[q].began <= now'
        BY <1>1, <1>3, <2>1
    <2> DEFINE began == refresh[p].began
               read(google) == [fetched |-> began, current |-> google.current,
                               regular |-> google.regular]
    <2>3. PICK google \in ShopAnswers :
             schedule' = IF Shop!Answers(read(google), began) THEN read(google) ELSE schedule
        BY <1>7 DEF Shop!refreshBusinessHours
    <2>4. read(google).fetched = began /\ began \in Nat /\ began <= now
        BY <1>1
    <2>5. SavedOnce(read(google))
        BY <1>1 DEF SavedOnce
    <2> HIDE DEF read, began
    <2>6. CASE Shop!Answers(read(google), began)
        <3>1. schedule' = read(google)
            BY <2>3, <2>6
        <3>2. SavedOnce(schedule') /\ schedule'.fetched <= now'
              /\ Shop!Answers(schedule', schedule'.fetched)
            BY <2>1, <2>4, <2>5, <2>6, <3>1
        <3> QED
            BY <2>2, <3>2 DEF SavedInv, SavedOnce
    <2>7. CASE ~Shop!Answers(read(google), began)
        BY <2>1, <2>2, <2>3, <2>7 DEF SavedInv, SavedOnce
    <2> QED
        BY <2>6, <2>7
<1>8. ASSUME NEW p \in Processes, Shop!RefreshFails(p) PROVE SavedInv'
    <2>1. /\ now' = now /\ schedule' = schedule
          /\ refresh' = [refresh EXCEPT ![p] = [pc |-> "idle", began |-> 0]]
        BY <1>8 DEF Shop!RefreshFails
    <2>2. \A q \in Processes : refresh'[q].began <= now'
        BY <1>1, <1>3, <2>1
    <2> QED
        BY <2>1, <2>2 DEF SavedInv, SavedOnce
<1>9. CASE UNCHANGED Shop!vars
    BY <1>9 DEF Shop!vars, SavedInv, SavedOnce
<1> QED
    BY <1>4, <1>5, <1>6, <1>7, <1>8, <1>9 DEF Shop!Next

LEMMA ShopAnswersSound ==
    ASSUME Shop!BusinessHoursAssumption, ShopInv, SavedInv
    PROVE  Shop!AnsweredAsPublished /\ Shop!KeepsAnswering
<1>1. now \in Nat
    BY DEF ShopInv
<1>2. schedule # Shop!NotSaved =>
         /\ SavedOnce(schedule) /\ schedule.fetched \in Nat /\ schedule.fetched <= now
         /\ Shop!Answers(schedule, schedule.fetched)
    BY DEF SavedInv, SavedOnce
<1>3. Shop!AnsweredAsPublished
    <2> SUFFICES ASSUME Shop!Answers(schedule, now) PROVE AnsweredAt(schedule, now)
        BY DEF Shop!AnsweredAsPublished, AnsweredAt, Reach
    <2>1. SavedOnce(schedule)
        BY <1>2 DEF Shop!Answers
    <2>2. Shop!HoursAt(schedule, now).kind \in {"dated", "weekly"}
        BY <2>1, HoursShape DEF Shop!Answers, Shop!HoursAt, Shop!IsWeekly, Shop!IsDated
    <2> QED
        BY <1>1, <2>1, <2>2, DatedAnswered, WeeklyAnswered
<1>4. Shop!KeepsAnswering
    <2> SUFFICES ASSUME schedule # Shop!NotSaved,
                        schedule.current.kind = "none" \/ now < Shop!LastCurrent(schedule)
                 PROVE  Shop!Answers(schedule, now)
        BY DEF Shop!KeepsAnswering
    <2>1. Shop!HoursAt(schedule, now) = Shop!HoursAt(schedule, schedule.fetched)
        <3>1. Shop!UsesCurrent(schedule, schedule.fetched) => now < Shop!LastCurrent(schedule)
            BY DEF Shop!UsesCurrent
        <3> QED
            BY <1>1, <1>2, <3>1, SameHours
    <2> QED
        BY <1>2, <2>1 DEF Shop!Answers
<1> QED
    BY <1>3, <1>4

-----------------------------------------------------------------------------
\* A store is eligible exactly when one of its opening spans holds the arrival and the
\* closing buffer after it; the plan is the route the rules single out in whatever order
\* the routes are met; and the shop is open, or opens next, when its saved hours say so:
\* for any hours, maps and shortlists, and any number of processes
\* (pickupStoreRouting.service.ts:407-575, 815-1065, businessHoursSchedule.ts:42-92).
THEOREM StoresAreSound == ASSUME ServicesAssumption PROVE ServicesSpec => []StoresSound
<1>1. /\ StoreOpen!StoreHoursAssumption /\ Routing!StoreRoutingAssumption
      /\ Shop!BusinessHoursAssumption
    BY DEF ServicesAssumption
<1>2. StoreOpen!HoursSpec => []StoreOpen!OpenForTheBuffer
    BY <1>1, HoursAlways
<1>3. Routing!RoutingSpec => [](Routing!PlanIsBest /\ Routing!FallbackLast)
    BY <1>1, RoutingAlways
<1>4. Shop!Spec => []ShopInv
    BY <1>1, ShopAlways
<1>5. Shop!Init => SavedInv
    BY SavedBegins
<1>6. ShopInv /\ SavedInv /\ [Shop!Next]_Shop!vars => SavedInv'
    BY <1>1, SavedGoesOn
<1>7. ShopInv /\ SavedInv => Shop!AnsweredAsPublished /\ Shop!KeepsAnswering
    BY <1>1, ShopAnswersSound
<1>8. StoreOpen!OpenForTheBuffer /\ Routing!PlanIsBest /\ Routing!FallbackLast
          /\ Shop!AnsweredAsPublished /\ Shop!KeepsAnswering => StoresSound
    BY DEF StoresSound
<1> QED
    BY <1>2, <1>3, <1>4, <1>5, <1>6, <1>7, <1>8, PTL DEF ServicesSpec, Shop!Spec

=============================================================================
