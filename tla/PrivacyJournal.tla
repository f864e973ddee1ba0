--------------------------- MODULE PrivacyJournal ---------------------------
(***************************************************************************)
(* Deletion requests between two histories: the application's database,    *)
(* which can be restored from an older backup, and the protected journal   *)
(* in S3, which only grows.  A transition is decided inside a database     *)
(* transaction that holds the privacy lock; its INTENT must be in the      *)
(* journal before the database commits, its COMMIT follows.  Any server    *)
(* may run a transition: the lock lets one at a time, so tx is whichever   *)
(* holds it.                                                               *)
(*                                                                         *)
(* An entry is appended by one conditional PUT of the next key.  Its       *)
(* answer may be lost and the PUT may still arrive after its sender has    *)
(* given up, crashed, or the database was restored: puts are those under   *)
(* way, and the sender never repeats one.  The journal is kept as what     *)
(* inspect() folds it into.                                                *)
(***************************************************************************)
EXTENDS DeletionPolicy, FiniteSets

CONSTANTS
    MaxHead,    \* bound: entries of one journal
    MaxEra,     \* bound: restores and successor journals
    MaxOrders,  \* bound: changes of one customer's orders
    MaxPuts     \* bound: PUTs under way

\* The requests are rows of a table, so there are finitely many.
ASSUME JournalAssumption == IsFiniteSet(Cases)

VARIABLES
    request,    \* PrivacyDeletionRequest rows
    live,       \* whether the customer's profile and order copies exist
    marker,     \* PrivacyDeletedIdentity rows
    orders,     \* revision of a customer's orders
    backup,     \* a backup of these tables
    mode,       \* "open", or "restored" and "reconciled" with traffic stopped
    era,        \* how often the database was replaced
    head,       \* entries in the journal
    cases,      \* per request, the last state the journal records as decided
    pending,    \* the INTENT without an outcome
    sealed,     \* whether the journal was closed for a successor
    puts,       \* conditional PUTs under way
    tx,         \* the transaction holding the privacy lock
    went        \* history: the pending intent's transaction has committed

database == <<request, live, marker, orders>>
journal == <<head, cases, pending, sealed, went>>
vars == <<database, backup, mode, era, journal, puts, tx>>

CaseState == [req : Request, orders : Nat]
NoCase == [req |-> NoRequest, orders |-> 0]

Evidence == [req : Request, live : {TRUE, FALSE}, orders : Nat]
Absent == [req |-> NoRequest, live |-> FALSE, orders |-> 0]

Intent == [case : Cases, state : CaseState, before : Evidence, after : Evidence, era : Nat]
NoIntent == [case |-> "none"]
Kinds == {"INTENT", "COMMIT", "COMMITTED", "NOT_COMMITTED", "SEAL"}
Put == [kind : Kinds, slot : Nat, intent : Intent \cup {NoIntent}]
NoTx == [kind |-> "none"]
Tx == [kind : {"transition"}, slot : Nat, intent : Intent, wrote : {TRUE, FALSE}]
        \cup [kind : {"reconcile"}, slot : Nat]
Tables == [request : [Cases -> Request], live : [Subjects -> {TRUE, FALSE}],
           marker : [Subjects -> {TRUE, FALSE}], orders : [Subjects -> Nat]]

Snapshot == [request |-> request, live |-> live, marker |-> marker, orders |-> orders]

Init ==
    /\ request = [c \in Cases |-> NoRequest]
    /\ live = [s \in Subjects |-> TRUE]
    /\ marker = [s \in Subjects |-> FALSE]
    /\ orders = [s \in Subjects |-> 1]
    /\ backup = Snapshot
    /\ mode = "open" /\ era = 0
    /\ head = 1 /\ cases = [c \in Cases |-> NoCase]     \* GENESIS
    /\ pending = NoIntent /\ sealed = FALSE /\ went = FALSE
    /\ puts = {} /\ tx = NoTx

-----------------------------------------------------------------------------
(* One transition of one request.                                          *)

CanPut == head < MaxHead /\ Cardinality(puts) < MaxPuts

\* Appends start from the head that was read, and ready() refuses an
\* unfinished operation and a sealed history.
Ready == pending = NoIntent /\ ~sealed /\ CanPut

\* The image of a request's rows that tells its outcomes apart.
EvidenceOf(req, alive, ord) ==
    IF req = NoRequest THEN Absent ELSE [req |-> req, live |-> alive, orders |-> ord]

\* The row must be what the journal says of it.
Recorded(c) == request[c] = NoRequest \/ request[c] = cases[c].req

IntentOf(c, r, before) ==
    LET s == SubjectOf[c]
    IN [case |-> c, state |-> [req |-> r, orders |-> orders[s]], before |-> before,
        after |-> EvidenceOf(r, live[s] /\ r.status \notin Erased, orders[s]), era |-> era]

\* transition(): lock, read both histories, do the work, send the INTENT.
Transition(c, r, before) ==
    /\ mode = "open" /\ tx = NoTx /\ Ready /\ Recorded(c)
    /\ LET i == IntentOf(c, r, before)
       IN /\ tx' = [kind |-> "transition", slot |-> head + 1, intent |-> i, wrote |-> FALSE]
          /\ puts' = puts \cup {[kind |-> "INTENT", slot |-> head + 1, intent |-> i]}
    /\ UNCHANGED <<database, backup, mode, era, journal>>

Now(c) == EvidenceOf(request[c], live[SubjectOf[c]], orders[SubjectOf[c]])

Submit(c) ==
    /\ live[SubjectOf[c]]
    /\ \A d \in Cases : SubjectOf[d] = SubjectOf[c] => request[d].status \notin Active
    /\ \E r \in Submitted(request[c]) : Transition(c, r, Now(c))

\* A second submission by the customer of an active request, under an
\* identifier of its own: the image before it is the absence of that one.
RecoverCredential(c) ==
    /\ request[c] = cases[c].req
    /\ \E r \in Recovered(request[c]) : Transition(c, r, Absent)

Decide(c) ==
    \E r \in Held(request[c]) \cup Cancelled(request[c]) \cup Resolved(request[c])
                \cup Completed(request[c]) : Transition(c, r, Now(c))

\* fulfill(): the erasure itself; the previewed scope is what is erased.
Fulfill(c) ==
    /\ live[SubjectOf[c]]
    /\ \E r \in Fulfilled(request[c]) : Transition(c, r, Now(c))

\* A repeated call finds its work done, and records that as well.
Repeat(c) ==
    /\ request[c] # NoRequest
    /\ live[SubjectOf[c]] \/ request[c].status \in Erased
    /\ Transition(c, request[c], Now(c))

\* The database commits once the INTENT is acknowledged; the COMMIT follows,
\* unless the server dies or never learns that its transaction committed.
CommitTx ==
    /\ LET c == tx.intent.case
           s == SubjectOf[c]
           r == tx.intent.state.req
       IN /\ request' = [request EXCEPT ![c] = r]
          /\ live' = [live EXCEPT ![s] = @ /\ r.status \notin Erased]
          /\ marker' = [marker EXCEPT ![s] = @ \/ r.status \in Erased]
    /\ went' = TRUE
    /\ tx' = NoTx
    /\ \/ CanPut /\ puts' = puts \cup {[kind |-> "COMMIT", slot |-> tx.slot + 1, intent |-> NoIntent]}
       \/ UNCHANGED puts
    /\ UNCHANGED <<orders, backup, mode, era, head, cases, pending, sealed>>

DbCommit_Unacknowledged == tx.kind = "transition" /\ CommitTx

DbCommit == tx.kind = "transition" /\ tx.wrote /\ CommitTx

\* Timeout, disconnect, refusal, crash: the transaction rolls back and the
\* lock is free.  Its PUT is not taken back.
TxLost ==
    /\ tx # NoTx
    /\ tx' = NoTx
    /\ UNCHANGED <<database, backup, mode, era, journal, puts>>

\* A conditional PUT arrives: it is refused once its key exists.
Land(p) ==
    /\ p \in puts /\ p.slot = head + 1
    /\ head' = p.slot
    /\ puts' = {q \in puts : q.slot > p.slot}
    /\ pending' = IF p.kind = "INTENT" THEN p.intent
                  ELSE IF p.kind = "SEAL" THEN pending ELSE NoIntent
    /\ cases' = IF p.kind \in {"COMMIT", "COMMITTED"}
                THEN [cases EXCEPT ![pending.case] = pending.state] ELSE cases
    /\ sealed' = (sealed \/ p.kind = "SEAL")
    /\ went' = (went /\ p.kind # "INTENT")
    /\ tx' = IF tx.kind = "transition" /\ p.kind = "INTENT" /\ tx.slot = p.slot /\ tx.intent = p.intent
             THEN [tx EXCEPT !.wrote = TRUE] ELSE tx
    /\ UNCHANGED <<database, backup, mode, era>>

Vanish(p) ==
    /\ p \in puts
    /\ puts' = puts \ {p}
    /\ UNCHANGED <<database, backup, mode, era, journal, tx>>

-----------------------------------------------------------------------------
(* Orders, backups, restores, and the operator.                            *)

ChangeOrders(s) ==
    /\ mode = "open" /\ tx = NoTx /\ orders[s] < MaxOrders
    /\ live' = [live EXCEPT ![s] = TRUE]
    /\ orders' = [orders EXCEPT ![s] = @ + 1]
    /\ UNCHANGED <<request, marker, backup, mode, era, journal, puts, tx>>

OrderChange_AnyPhone(s) == ChangeOrders(s)

\* assertPrivacyOrderAllowed(): creation and edits of orders take the same
\* lock; the phone of an erased customer is refused, any other gets a profile.
OrderChange(s) == ~marker[s] /\ ChangeOrders(s)

Backup ==
    /\ mode = "open"
    /\ backup' = Snapshot
    /\ UNCHANGED <<database, mode, era, journal, puts, tx>>

\* The database is lost and restored; traffic stays off until it is reopened.
Restore ==
    /\ era < MaxEra
    /\ request' = backup.request /\ live' = backup.live
    /\ marker' = backup.marker /\ orders' = backup.orders
    /\ mode' = "restored" /\ era' = era + 1
    /\ tx' = NoTx
    /\ UNCHANGED <<backup, journal, puts>>

ErasedCase(c) == cases[c].req.status \in Erased

\* What reconcileRecoveryTransaction() requires of the restored rows of a case.
Reconcilable(c) ==
    LET s == SubjectOf[c]
        r == cases[c].req
    IN /\ request[c].version <= r.version /\ request[c].tasks <= r.tasks
       /\ ~(request[c].status \in {"CANCELLED", "HOLD"} /\ r.status \in Erased)
       /\ IF live[s] THEN orders[s] = cases[c].orders ELSE orders[s] >= cases[c].orders
       /\ \/ live[s]
          \/ ErasedCase(c)
          \/ r.status = "CANCELLED" /\ \E d \in Cases : SubjectOf[d] = s /\ ErasedCase(d)

\* The operator's transaction starts from the journal's head...
ReconcileBegin ==
    /\ mode = "restored" /\ tx = NoTx /\ pending = NoIntent /\ ~sealed
    /\ \A c \in Cases : IF cases[c].req = NoRequest THEN request[c] = NoRequest
                         ELSE Reconcilable(c)
    /\ \A s \in Subjects :
           marker[s] => \E c \in Cases : SubjectOf[c] = s /\ ErasedCase(c)
    /\ tx' = [kind |-> "reconcile", slot |-> head]
    /\ UNCHANGED <<database, backup, mode, era, journal, puts>>

\* ...and replays it on the database, if the history has not moved meanwhile.
ReconcileCommit ==
    /\ tx.kind = "reconcile" /\ head = tx.slot /\ pending = NoIntent /\ ~sealed
    /\ LET gone == {SubjectOf[c] : c \in {d \in Cases : ErasedCase(d)}}
       IN /\ request' = [c \in Cases |-> IF cases[c].req = NoRequest THEN request[c]
                                         ELSE cases[c].req]
          /\ live' = [s \in Subjects |-> live[s] /\ s \notin gone]
          /\ marker' = [s \in Subjects |-> marker[s] \/ s \in gone]
    /\ mode' = "reconciled"
    /\ tx' = NoTx
    /\ UNCHANGED <<orders, backup, era, journal, puts>>

\* The operator's own decision, after reconciliation.
Reopen ==
    /\ mode = "reconciled"
    /\ mode' = "open"
    /\ UNCHANGED <<database, backup, era, journal, puts, tx>>

Observe ==
    /\ tx = NoTx /\ pending # NoIntent /\ ~sealed /\ CanPut
    /\ (Now(pending.case) = pending.before) # (Now(pending.case) = pending.after)
    /\ puts' = puts \cup {[kind |-> IF Now(pending.case) = pending.after
                                    THEN "COMMITTED" ELSE "NOT_COMMITTED",
                           slot |-> head + 1, intent |-> NoIntent]}
    /\ UNCHANGED <<database, backup, mode, era, journal, tx>>

Resolve_AnyDatabase == Observe

\* On the database the intent was made on, its outcome is whichever image of
\* the two, and only one, the rows match.
Resolve == pending # NoIntent /\ pending.era = era /\ Observe

\* Maintenance closes the journal, without the lock...
Seal ==
    /\ Ready
    /\ puts' = puts \cup {[kind |-> "SEAL", slot |-> head + 1, intent |-> NoIntent]}
    /\ UNCHANGED <<database, backup, mode, era, journal, tx>>

\* ...and the servers restart on its successor: a CHECKPOINT, the retained
\* CASEs and COVERED.  A closed case may be left out when no backup is older
\* than its end, which the reviewer confirms.
Successor(R) ==
    /\ sealed /\ era < MaxEra
    /\ \A c \in R : cases[c].req.status \in Closed /\ backup.request[c] = cases[c].req
    /\ cases' = [c \in Cases |-> IF c \in R THEN NoCase ELSE cases[c]]
    /\ head' = 2 + Cardinality({c \in Cases \ R : cases[c].req # NoRequest})
    /\ sealed' = FALSE /\ era' = era + 1
    /\ puts' = {} /\ tx' = NoTx
    /\ UNCHANGED <<database, backup, mode, pending, went>>

Next ==
    \/ \E c \in Cases : Submit(c) \/ RecoverCredential(c) \/ Decide(c) \/ Fulfill(c) \/ Repeat(c)
    \/ DbCommit \/ TxLost
    \/ \E p \in puts : Land(p) \/ Vanish(p)
    \/ \E s \in Subjects : OrderChange(s)
    \/ Backup \/ Restore \/ ReconcileBegin \/ ReconcileCommit \/ Reopen
    \/ Resolve \/ Seal
    \/ \E R \in SUBSET Cases : Successor(R)

Spec == Init /\ [][Next]_vars

-----------------------------------------------------------------------------
\* What has been decided, from the journal: an unfinished operation counts
\* from the moment its transaction commits.
Decided(c) == IF pending # NoIntent /\ went /\ pending.case = c
              THEN pending.state.req ELSE cases[c].req

Ledger == INSTANCE DecisionLedger WITH decision <- [c \in Cases |-> Decided(c)]

\* The types of every variable.
TypeOK ==
    /\ Snapshot \in Tables /\ backup \in Tables
    /\ mode \in {"open", "restored", "reconciled"} /\ era \in Nat
    /\ head \in Nat \ {0} /\ cases \in [Cases -> CaseState]
    /\ pending \in Intent \cup {NoIntent} /\ sealed \in BOOLEAN /\ went \in BOOLEAN
    /\ puts \subseteq Put /\ tx \in Tx \cup {NoTx}

\* While customers are served, their requests stand in the database exactly
\* as decided, whatever was lost, late or restored before: transition(),
\* reconcileRecoveryTransaction() and runPrivacyOperator().  A request that
\* reviewed maintenance left out of the journal is over.
ServedAsDecided ==
    mode = "open" =>
        \A c \in Cases : \/ request[c] = Decided(c)
                         \/ cases[c] = NoCase /\ request[c].status \in Closed

\* An erased customer stays erased: no crash, restore, successor history or
\* new order brings the profile back (fulfill(), eraseScoped(),
\* assertPrivacyOrderAllowed()).
ErasureHolds ==
    mode = "open" =>
        \A c \in Cases : (Decided(c).status \in Erased \/ request[c].status \in Erased)
            => ~live[SubjectOf[c]] /\ marker[SubjectOf[c]]

\* The two histories together behave as one ledger of decisions, each taken
\* in one step, none lost, undone or made up by a crash, a late PUT, a
\* restore or an operator's resolution.
ImplementsLedger == Ledger!Spec

\* An intent whose transaction rolled back, on the database it was made on
\* with nothing changed since, can be resolved as not committed
\* (outcomeEvidence()), unless its images are equal.
RolledBackIsResolvable ==
    (/\ tx = NoTx /\ pending # NoIntent /\ ~went /\ pending.era = era
     /\ pending.before # pending.after
     /\ orders[SubjectOf[pending.case]] = pending.state.orders)
        => Now(pending.case) = pending.before
=============================================================================
