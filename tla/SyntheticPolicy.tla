-------------------------- MODULE SyntheticPolicy --------------------------
(***************************************************************************)
(* The operator-enrolled test profile and its budget (services/            *)
(* syntheticOrderSafety.service.ts).  Enrolment, closing, order creation   *)
(* and message claims take one advisory lock and only then read the        *)
(* policy row; an order creation has checked the policy once before it,    *)
(* without the lock, and goes on for several statements while it holds it. *)
(***************************************************************************)
EXTENDS Integers

CONSTANTS
    Calls,      \* calls in flight together
    MaxOrders, MaxEmails

SyntheticAssumption ==
    /\ MaxOrders \in 1 .. 6 /\ MaxEmails \in 1 .. 3
    /\ "unlocked" \notin Calls

VARIABLES
    policy,     \* the SystemSetting row
    orders,     \* orders of the synthetic customer, all cancelled when they commit
    emails,     \* e-mail challenges that were claimed, whatever became of them
    lock,       \* who holds the advisory lock
    call,       \* each call: where it is and the policy it has read
    late        \* orders or claims committed after the profile was closed

vars == <<policy, orders, emails, lock, call, late>>

NoPolicy == [state |-> "NONE", ordersCreated |-> 0, emailsClaimed |-> 0]
Policy == [state : {"NONE", "ACTIVE", "CLOSED"},
           ordersCreated : 0 .. MaxOrders, emailsClaimed : 0 .. MaxEmails]
Unlocked == "unlocked"
Kinds == {"enroll", "close", "order", "email"}
Resting == [pc |-> "idle", kind |-> "order", read |-> NoPolicy]

SyntheticTypeOK ==
    /\ policy \in Policy
    /\ orders \in Nat /\ emails \in Nat
    /\ lock \in Calls \union {Unlocked}
    /\ call \in [Calls -> [pc : {"idle", "waiting", "locked"}, kind : Kinds, read : Policy]]
    /\ late \in BOOLEAN

Init ==
    /\ policy = NoPolicy
    /\ orders = 0 /\ emails = 0
    /\ lock = Unlocked
    /\ call = [p \in Calls |-> Resting]
    /\ late = FALSE

\* Mutants: the last one allowed is counted after it was spent.
OrderAllowed_OneMore(p) == p.state = "ACTIVE" /\ p.ordersCreated <= MaxOrders
EmailAllowed_OneMore(p) == p.state = "ACTIVE" /\ p.emailsClaimed <= MaxEmails

\* classify(): an active profile with an order left.  Expiry is a state like CLOSED.
OrderAllowed(p) == p.state = "ACTIVE" /\ p.ordersCreated < MaxOrders
EmailAllowed(p) == p.state = "ACTIVE" /\ p.emailsClaimed < MaxEmails

\* A call arrives; an order is checked before its transaction begins.
Arrive(c) ==
    /\ call[c].pc = "idle"
    /\ \E kind \in Kinds :
          /\ kind = "order" => OrderAllowed(policy)
          /\ call' = [call EXCEPT ![c] = [pc |-> "waiting", kind |-> kind, read |-> policy]]
    /\ UNCHANGED <<policy, orders, emails, lock, late>>

\* Mutant: the policy checked before the transaction is used inside it.
lockedPolicy_Precheck(c) ==
    /\ call[c].pc = "waiting"
    /\ lock = Unlocked
    /\ lock' = c
    /\ call' = [call EXCEPT ![c].pc = "locked"]
    /\ UNCHANGED <<policy, orders, emails, late>>

\* lockedPolicy(): the row is read once the lock is held.
lockedPolicy(c) ==
    /\ call[c].pc = "waiting"
    /\ lock = Unlocked
    /\ lock' = c
    /\ call' = [call EXCEPT ![c].pc = "locked", ![c].read = policy]
    /\ UNCHANGED <<policy, orders, emails, late>>

Leave(c) == lock' = Unlocked /\ call' = [call EXCEPT ![c] = Resting]

\* The transaction commits what it decided from what it read, or is refused.
reserveSyntheticOrder(c) ==
    /\ call[c].pc = "locked"
    /\ call[c].kind = "order"
    /\ Leave(c)
    /\ IF OrderAllowed(call[c].read) /\ orders = call[c].read.ordersCreated
       THEN /\ orders' = orders + 1
            /\ policy' = [call[c].read EXCEPT !.ordersCreated = @ + 1]
            /\ late' = (late \/ policy.state = "CLOSED")
       ELSE UNCHANGED <<orders, policy, late>>
    /\ UNCHANGED emails

claimSyntheticEmail(c) ==
    /\ call[c].pc = "locked"
    /\ call[c].kind = "email"
    /\ Leave(c)
    /\ IF EmailAllowed(call[c].read)
       THEN /\ emails' = emails + 1
            /\ policy' = [call[c].read EXCEPT !.emailsClaimed = @ + 1]
            /\ late' = (late \/ policy.state = "CLOSED")
       ELSE UNCHANGED <<emails, policy, late>>
    /\ UNCHANGED orders

\* A policy is never replaced or rearmed.
enrollSyntheticProfile(c) ==
    /\ call[c].pc = "locked"
    /\ call[c].kind = "enroll"
    /\ Leave(c)
    /\ policy' = IF call[c].read = NoPolicy THEN [NoPolicy EXCEPT !.state = "ACTIVE"] ELSE policy
    /\ UNCHANGED <<orders, emails, late>>

closeSyntheticProfile(c) ==
    /\ call[c].pc = "locked"
    /\ call[c].kind = "close"
    /\ Leave(c)
    /\ policy' = IF call[c].read = NoPolicy THEN policy
                 ELSE [call[c].read EXCEPT !.state = "CLOSED"]
    /\ UNCHANGED <<orders, emails, late>>

\* A transaction that fails releases the lock and changes nothing.
Rollback(c) ==
    /\ call[c].pc = "locked"
    /\ Leave(c)
    /\ UNCHANGED <<policy, orders, emails, late>>

Next ==
    \E c \in Calls :
        \/ Arrive(c) \/ lockedPolicy(c) \/ Rollback(c)
        \/ reserveSyntheticOrder(c) \/ claimSyntheticEmail(c)
        \/ enrollSyntheticProfile(c) \/ closeSyntheticProfile(c)

Spec == Init /\ [][Next]_vars

-----------------------------------------------------------------------------
\* No more orders are committed and no more e-mails claimed than the operator enrolled
\* the profile for, the row counts each one of them, and nothing is spent once the
\* profile was closed, whatever waited for the lock meanwhile
\* (syntheticOrderSafety.service.ts:53-66, 89-106).
BudgetKept ==
    /\ orders = policy.ordersCreated /\ orders <= MaxOrders
    /\ emails = policy.emailsClaimed /\ emails <= MaxEmails
    /\ ~late
=============================================================================
