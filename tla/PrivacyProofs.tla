--------------------------- MODULE PrivacyProofs ----------------------------
(***************************************************************************)
(* Theorems about the privacy requests.  The deletion requests between the *)
(* database and the protected journal: whatever is lost, late, restored or *)
(* resolved, the two together behave as the ledger of decisions, the       *)
(* requests that are served are the decided ones, and an erased customer   *)
(* stays erased.  The codes and credentials that a request is made with:   *)
(* however the calls overlap, a code is sent once and tried a bounded      *)
(* number of times, and nothing outlives the erasure.                      *)
(***************************************************************************)
EXTENDS PrivacyJournal, PrivacyRequests, FiniteSetTheorems, TLAPS

\* What an intent says of the transition it announces: the image after it is of the
\* row it leaves, and only a repeated transition leaves the row it found.
Announces(i) ==
    /\ i.case \in Cases
    /\ i.state.req # NoRequest
    /\ i.after.req = i.state.req
    /\ i.before.req = i.state.req => i.before = i.after

\* The transition may still be made: the row is the one it was decided on.
Fresh(i) ==
    LET c == i.case
        r == i.state.req
    IN /\ request[c] = cases[c].req
       /\ r = request[c] => i.before = i.after
       /\ \/ r = request[c]
          \/ r \in Steps(request[c])
          \/ /\ r \in Submitted(request[c])
             /\ \A d \in Cases :
                    SubjectOf[d] = SubjectOf[c] => request[d].status \notin Active \cup Erased

\* An intent of this database was made while customers were served, and has not been
\* overtaken.
OfThisEra(i) == i.era <= era /\ (i.era = era => mode = "open")

\* Every PUT under way is for the next key, so one lands at most, and which kinds there
\* are depends on what the journal ends with.
PutHolds(p) ==
    /\ p.slot = head + 1
    /\ p.kind \in {"INTENT", "SEAL"} <=> pending = NoIntent
    /\ p.kind = "INTENT" =>
          /\ p.intent \in Intent /\ Announces(p.intent) /\ OfThisEra(p.intent)
          /\ p.intent.era = era => Fresh(p.intent)
    /\ p.kind \in {"COMMIT", "COMMITTED"} => went
    /\ p.kind = "NOT_COMMITTED" => ~went /\ tx = NoTx

PutsInv ==
    /\ \A p \in puts : PutHolds(p)
    /\ sealed => puts = {} /\ pending = NoIntent

PendingInv ==
    pending # NoIntent =>
        /\ Announces(pending) /\ OfThisEra(pending)
        /\ ~went /\ pending.era = era => Fresh(pending)
        /\ went /\ mode # "restored" => request[pending.case] = pending.state.req

\* The transaction that holds the lock.
TxInv ==
    /\ tx.kind = "transition" =>
          /\ mode = "open" /\ tx.intent.era = era
          /\ tx.wrote => pending = tx.intent /\ tx.slot = head /\ ~went
    /\ tx.kind = "reconcile" =>
          /\ mode = "restored" /\ tx.slot <= head
          /\ head = tx.slot => \A c \in Cases : cases[c].req = NoRequest => request[c] = NoRequest

\* The rows are as decided, once the database has been reconciled.
RowsInv ==
    mode # "restored" =>
        \A c \in Cases :
            /\ \/ request[c] = Decided(c)
               \/ cases[c] = NoCase /\ request[c].status \in Closed
            /\ request[c].status \in Erased => ~live[SubjectOf[c]] /\ marker[SubjectOf[c]]

JournalInv == TypeOK /\ PutsInv /\ PendingInv /\ TxInv /\ RowsInv
-----------------------------------------------------------------------------
(***************************************************************************)
(* Values                                                                  *)
(***************************************************************************)

LEMMA AbsentRow == NoRequest \in Request
BY PolicyAssumption DEF NoRequest, Request, Statuses

\* What a transition leaves is a row that is not the one it found.
LEMMA TransitionsChange ==
    ASSUME NEW r \in Request, NEW x \in Submitted(r) \cup Steps(r)
    PROVE  x \in Request /\ x # r /\ x # NoRequest
<1>1. r.version \in Nat /\ r.tasks \in 0 .. Systems /\ r.status \in Statuses
  BY DEF Request
<1>2. ASSUME NEW s \in Statuses
      PROVE  Bump(r, s) \in Request /\ Bump(r, s) # r /\ Bump(r, s) # NoRequest
  <2>1. Bump(r, s) \in Request
    BY <1>1 DEF Bump, Request
  <2>2. Bump(r, s).version = r.version + 1
    BY DEF Bump
  <2>3. Bump(r, s).version # r.version /\ Bump(r, s).version # NoRequest.version
    BY <2>2, <1>1 DEF NoRequest
  <2> QED
    BY <2>1, <2>3
<1>3. CASE x \in Submitted(r)
  <2>1. r = NoRequest /\ x = [status |-> "SUBMITTED", version |-> 0, tasks |-> 0]
    BY <1>3 DEF Submitted
  <2>2. x \in Request
    BY <2>1, PolicyAssumption DEF Request, Statuses
  <2>3. x.status # NoRequest.status
    BY <2>1 DEF NoRequest
  <2> QED
    BY <2>1, <2>2, <2>3
<1>4. CASE x \in Resolved(r)
  <2>1. x = [r EXCEPT !.tasks = @ + 1] /\ r.tasks < Systems /\ r.status = "FULFILLING"
    BY <1>4 DEF Resolved
  <2>2. r = [status |-> r.status, version |-> r.version, tasks |-> r.tasks]
    BY DEF Request
  <2>3. x = [status |-> r.status, version |-> r.version, tasks |-> r.tasks + 1]
    BY <2>1, <2>2
  <2>4. r.tasks + 1 \in 0 .. Systems /\ r.tasks + 1 # r.tasks
    BY <1>1, <2>1, PolicyAssumption
  <2>5. x \in Request
    BY <2>3, <2>4, <1>1 DEF Request
  <2>6. x.tasks # r.tasks /\ x.status # NoRequest.status
    BY <2>1, <2>3, <2>4 DEF NoRequest
  <2> QED
    BY <2>5, <2>6
<1>5. x \in Submitted(r) \/ x \in Resolved(r) \/ \E s \in Statuses : x = Bump(r, s)
  BY DEF Steps, Recovered, Held, Cancelled, Fulfilled, Completed, Active, Statuses
<1> QED
  BY <1>2, <1>3, <1>4, <1>5

\* A request that is over has no further transition.
LEMMA ClosedIsFinal ==
    ASSUME NEW r, r.status \in Closed
    PROVE  Submitted(r) = {} /\ Steps(r) = {}
BY DEF Closed, Submitted, NoRequest, Steps, Recovered, Held, Cancelled, Fulfilled, Resolved,
       Completed, Active

LEMMA IntentIsNotNone == ASSUME NEW i \in Intent PROVE i # NoIntent
<1>1. DOMAIN i = {"case", "state", "before", "after", "era"}
  BY DEF Intent
<1>2. DOMAIN NoIntent = {"case"}
  BY DEF NoIntent
<1> QED
  BY <1>1, <1>2

\* The parts of the tables.
LEMMA TablesParts ==
    Snapshot \in Tables <=>
        /\ request \in [Cases -> Request] /\ live \in [Subjects -> {TRUE, FALSE}]
        /\ marker \in [Subjects -> {TRUE, FALSE}] /\ orders \in [Subjects -> Nat]
BY Zenon DEF Snapshot, Tables

-----------------------------------------------------------------------------
(***************************************************************************)
(* Types                                                                   *)
(***************************************************************************)

\* What the types say of single values.
LEMMA JournalValues ==
    ASSUME TypeOK
    PROVE  /\ request \in [Cases -> Request] /\ cases \in [Cases -> CaseState]
           /\ live \in [Subjects -> {TRUE, FALSE}] /\ marker \in [Subjects -> {TRUE, FALSE}]
           /\ orders \in [Subjects -> Nat] /\ head \in Nat /\ era \in Nat
           /\ \A c \in Cases : /\ SubjectOf[c] \in Subjects
                               /\ request[c] \in Request
                               /\ cases[c] \in CaseState /\ cases[c].req \in Request
           /\ \A s \in Subjects : live[s] \in BOOLEAN /\ marker[s] \in BOOLEAN
                                  /\ orders[s] \in Nat
<1>1. /\ request \in [Cases -> Request] /\ live \in [Subjects -> {TRUE, FALSE}]
      /\ marker \in [Subjects -> {TRUE, FALSE}] /\ orders \in [Subjects -> Nat]
  BY TablesParts DEF TypeOK
<1>2. cases \in [Cases -> CaseState] /\ head \in Nat /\ era \in Nat
  BY DEF TypeOK
<1>3. \A c \in Cases : cases[c].req \in Request
  BY <1>2 DEF CaseState
<1>4. \A s \in Subjects : live[s] \in BOOLEAN /\ marker[s] \in BOOLEAN
  BY <1>1, Zenon
<1> QED
  BY <1>1, <1>2, <1>3, <1>4, PolicyAssumption

LEMMA EvidenceTypes ==
    ASSUME NEW req \in Request, NEW alive \in BOOLEAN, NEW ord \in Nat
    PROVE  EvidenceOf(req, alive, ord) \in Evidence
<1>1. Absent \in Evidence
  BY AbsentRow, Zenon DEF Absent, Evidence
<1>2. [req |-> req, live |-> alive, orders |-> ord] \in Evidence
  BY Zenon DEF Evidence
<1> QED
  BY <1>1, <1>2 DEF EvidenceOf

LEMMA TypesBegin == Init => TypeOK
<1> SUFFICES ASSUME Init
             PROVE  TypeOK
  OBVIOUS
<1>1. Snapshot \in Tables
  <2>1. request \in [Cases -> Request] /\ orders \in [Subjects -> Nat]
    BY AbsentRow DEF Init
  <2>2. live \in [Subjects -> {TRUE, FALSE}] /\ marker \in [Subjects -> {TRUE, FALSE}]
    BY DEF Init
  <2> QED
    BY <2>1, <2>2, TablesParts
<1>2. NoCase \in CaseState
  BY AbsentRow DEF NoCase, CaseState
<1>3. backup \in Tables
  BY <1>1 DEF Init
<1>4. puts \subseteq Put /\ tx \in Tx \cup {NoTx} /\ pending \in Intent \cup {NoIntent}
  <2>1. puts = {} /\ tx = NoTx /\ pending = NoIntent
    BY DEF Init
  <2> QED
    BY <2>1
<1>5. mode \in {"open", "restored", "reconciled"} /\ era \in Nat /\ head \in Nat \ {0}
  BY DEF Init
<1>6. sealed \in BOOLEAN /\ went \in BOOLEAN
  BY Zenon DEF Init
<1>7. cases \in [Cases -> CaseState]
  BY <1>2 DEF Init
<1> QED
  BY <1>1, <1>3, <1>4, <1>5, <1>6, <1>7 DEF TypeOK

-----------------------------------------------------------------------------
(***************************************************************************)
(* The invariant                                                           *)
(***************************************************************************)

LEMMA JournalBegins == Init => JournalInv
<1> SUFFICES ASSUME Init
             PROVE  JournalInv
  OBVIOUS
<1>1. TypeOK
  BY TypesBegin
<1>2. PutsInv /\ PendingInv /\ TxInv
  BY DEF Init, PutsInv, PendingInv, TxInv, NoTx
<1>3. RowsInv
  BY DEF Init, RowsInv, Decided, NoCase, NoRequest, Erased
<1> QED
  BY <1>1, <1>2, <1>3 DEF JournalInv

\* Where the rows are as decided, one that the journal does not know does not exist or is
\* over; one that may be decided on is the recorded one.
LEMMA RecordedRow ==
    ASSUME JournalInv, NEW c \in Cases, mode = "open", pending = NoIntent, Recorded(c)
    PROVE  request[c] = cases[c].req
<1>1. \/ request[c] = cases[c].req
      \/ cases[c] = NoCase /\ request[c].status \in Closed
  BY DEF JournalInv, RowsInv, Decided
<1> QED
  BY <1>1 DEF Recorded, NoCase, NoRequest, Closed

\* What the handlers make of a row and its images.
Decidable(c, r, before) ==
    \/ r = request[c] /\ r # NoRequest /\ before = Now(c)
       /\ (live[SubjectOf[c]] \/ r.status \in Erased)
    \/ r \in Steps(request[c]) /\ before \in {Now(c), Absent}
    \/ /\ r \in Submitted(request[c]) /\ before = Now(c) /\ live[SubjectOf[c]]
       /\ \A d \in Cases : SubjectOf[d] = SubjectOf[c] => request[d].status \notin Active

\* The intent of such a transition.
LEMMA IntentOfTransition ==
    ASSUME JournalInv, NEW c \in Cases, NEW r, NEW before, Decidable(c, r, before),
           mode = "open", pending = NoIntent, Recorded(c)
    PROVE  LET i == IntentOf(c, r, before)
           IN i \in Intent /\ i.era = era /\ Announces(i) /\ Fresh(i)
<1> DEFINE s == SubjectOf[c]
           i == IntentOf(c, r, before)
           after == EvidenceOf(r, live[s] /\ r.status \notin Erased, orders[s])
<1>1. /\ request[c] \in Request /\ s \in Subjects /\ live[s] \in BOOLEAN
      /\ orders[s] \in Nat /\ era \in Nat
  BY JournalValues DEF JournalInv
<1>2. r \in Request /\ r # NoRequest
  BY <1>1, TransitionsChange DEF Decidable
<1>3. i = [case |-> c, state |-> [req |-> r, orders |-> orders[s]], before |-> before,
           after |-> after, era |-> era]
  BY DEF IntentOf
<1>4. after \in Evidence /\ after.req = r
  <2>1. (live[s] /\ r.status \notin Erased) \in BOOLEAN
    OBVIOUS
  <2>2. after \in Evidence
    BY <1>1, <1>2, <2>1, EvidenceTypes
  <2> QED
    BY <1>2, <2>2 DEF EvidenceOf
<1>5. before \in Evidence
  <2>1. Now(c) \in Evidence
    BY <1>1, EvidenceTypes DEF Now
  <2>2. Absent \in Evidence
    BY AbsentRow, Zenon DEF Absent, Evidence
  <2> QED
    BY <2>1, <2>2 DEF Decidable
<1>6. i \in Intent
  BY <1>1, <1>2, <1>3, <1>4, <1>5 DEF Intent, CaseState
<1>7. r = request[c] => before = after
  <2> SUFFICES ASSUME r = request[c]
               PROVE  before = after
    OBVIOUS
  <2>1. before = Now(c) /\ (live[s] \/ r.status \in Erased)
    BY <1>1, TransitionsChange DEF Decidable
  <2>2. r.status \in Erased => ~live[s]
    BY DEF JournalInv, RowsInv
  <2>3. (live[s] /\ r.status \notin Erased) = live[s]
    BY <1>1, <2>1, <2>2
  <2> QED
    BY <2>1, <2>3 DEF Now
<1>8. before.req = r => r = request[c]
  BY <1>2 DEF Decidable, Now, EvidenceOf, Absent
<1>9. Announces(i)
  BY <1>2, <1>3, <1>4, <1>7, <1>8 DEF Announces
<1>10. request[c] = cases[c].req
  BY RecordedRow
<1>11. \/ r = request[c]
       \/ r \in Steps(request[c])
       \/ /\ r \in Submitted(request[c])
          /\ \A d \in Cases : SubjectOf[d] = s => request[d].status \notin Active \cup Erased
  BY DEF Decidable, JournalInv, RowsInv
<1>12. Fresh(i)
  BY <1>3, <1>7, <1>10, <1>11 DEF Fresh
<1> QED
  BY <1>3, <1>6, <1>9, <1>12

LEMMA TransitionKeeps ==
    ASSUME JournalInv, NEW c \in Cases, NEW r, NEW before, Decidable(c, r, before),
           Transition(c, r, before)
    PROVE  JournalInv'
<1> DEFINE i == IntentOf(c, r, before)
           p == [kind |-> "INTENT", slot |-> head + 1, intent |-> i]
<1>1. /\ mode = "open" /\ tx = NoTx /\ pending = NoIntent /\ ~sealed /\ Recorded(c)
      /\ tx' = [kind |-> "transition", slot |-> head + 1, intent |-> i, wrote |-> FALSE]
      /\ puts' = puts \cup {p}
      /\ UNCHANGED <<request, live, marker, orders, backup, mode, era, head, cases,
                     pending, sealed, went>>
  BY DEF Transition, Ready, database, journal
<1>2. i \in Intent /\ i.era = era /\ Announces(i) /\ Fresh(i)
  BY <1>1, IntentOfTransition
<1> HIDE DEF i
<1>3. /\ p.kind = "INTENT" /\ p.slot = head + 1 /\ p.intent = i
      /\ tx'.kind = "transition" /\ tx'.intent = i /\ tx'.wrote = FALSE
  BY <1>1
<1>4. TypeOK'
  <2>1. Snapshot' \in Tables
    BY <1>1 DEF JournalInv, TypeOK, Snapshot
  <2>2. p \in Put
    BY <1>2, JournalValues DEF JournalInv, Put, Kinds
  <2>3. tx' \in Tx
    <3>1. head + 1 \in Nat
      BY JournalValues DEF JournalInv
    <3> QED
      BY <1>1, <1>2, <3>1, Zenon DEF Tx
  <2> QED
    BY <1>1, <2>1, <2>2, <2>3 DEF JournalInv, TypeOK
<1>5. \A q \in puts : PutHolds(q)'
  BY <1>1 DEF JournalInv, PutsInv, PutHolds, OfThisEra, Fresh
<1>6. ASSUME NEW q, q = p
      PROVE  PutHolds(q)'
  <2>1. q.kind = "INTENT" /\ q.slot = head + 1 /\ q.intent = i
    BY <1>3, <1>6
  <2>2. Announces(q.intent)
    BY <1>2, <2>1
  <2>3. OfThisEra(q.intent)'
    BY <1>1, <1>2, <2>1, JournalValues DEF JournalInv, OfThisEra
  <2>4. Fresh(q.intent)'
    BY <1>1, <1>2, <2>1 DEF Fresh
  <2> QED
    BY <1>1, <1>2, <2>1, <2>2, <2>3, <2>4 DEF PutHolds, Announces
<1>7. PutsInv'
  BY <1>1, <1>5, <1>6 DEF PutsInv
<1>8. PendingInv' /\ TxInv'
  BY <1>1, <1>2, <1>3 DEF PendingInv, TxInv
<1>9. RowsInv'
  BY <1>1 DEF JournalInv, RowsInv, Decided
<1> QED
  BY <1>4, <1>7, <1>8, <1>9 DEF JournalInv

\* Each of the handlers decides within the policy.
LEMMA HandlersKeep ==
    ASSUME JournalInv, NEW c \in Cases,
           Submit(c) \/ RecoverCredential(c) \/ Decide(c) \/ Fulfill(c) \/ Repeat(c)
    PROVE  JournalInv'
<1>1. CASE Submit(c)
  <2>1. PICK r \in Submitted(request[c]) : Transition(c, r, Now(c))
    BY <1>1 DEF Submit
  <2>2. Decidable(c, r, Now(c))
    BY <1>1, <2>1 DEF Submit, Decidable
  <2> QED
    BY <2>1, <2>2, TransitionKeeps
<1>2. CASE RecoverCredential(c)
  <2>1. PICK r \in Recovered(request[c]) : Transition(c, r, Absent)
    BY <1>2 DEF RecoverCredential
  <2>2. Decidable(c, r, Absent)
    BY <2>1 DEF Decidable, Steps
  <2> QED
    BY <2>1, <2>2, TransitionKeeps
<1>3. CASE Decide(c)
  <2>1. PICK r \in Steps(request[c]) : Transition(c, r, Now(c))
    BY <1>3 DEF Decide, Steps
  <2>2. Decidable(c, r, Now(c))
    BY <2>1 DEF Decidable
  <2> QED
    BY <2>1, <2>2, TransitionKeeps
<1>4. CASE Fulfill(c)
  <2>1. PICK r \in Steps(request[c]) : Transition(c, r, Now(c))
    BY <1>4 DEF Fulfill, Steps
  <2>2. Decidable(c, r, Now(c))
    BY <2>1 DEF Decidable
  <2> QED
    BY <2>1, <2>2, TransitionKeeps
<1>5. CASE Repeat(c)
  <2>1. Transition(c, request[c], Now(c)) /\ Decidable(c, request[c], Now(c))
    BY <1>5 DEF Repeat, Decidable
  <2> QED
    BY <2>1, TransitionKeeps
<1> QED
  BY <1>1, <1>2, <1>3, <1>4, <1>5

\* The commit of a transition: its intent is what the journal ends with, and no PUT is
\* under way.
LEMMA CommittingIntent ==
    ASSUME JournalInv, DbCommit
    PROVE  /\ pending # NoIntent /\ tx.intent = pending /\ tx.slot = head /\ ~went /\ ~sealed
           /\ mode = "open" /\ pending \in Intent /\ Announces(pending) /\ Fresh(pending)
           /\ pending.era = era /\ puts = {}
<1>1. /\ tx.kind = "transition" /\ tx.wrote /\ mode = "open" /\ tx.intent.era = era
      /\ pending = tx.intent /\ tx.slot = head /\ ~went
  BY DEF DbCommit, JournalInv, TxInv
<1>2. pending \in Intent /\ pending # NoIntent
  <2>1. tx \in Tx
    BY <1>1 DEF JournalInv, TypeOK, NoTx
  <2>2. tx.intent \in Intent
    BY <1>1, <2>1 DEF Tx
  <2> QED
    BY <1>1, <2>2, IntentIsNotNone
<1>3. Announces(pending) /\ Fresh(pending)
  BY <1>1, <1>2 DEF JournalInv, PendingInv
<1>4. puts = {}
  <2> SUFFICES ASSUME NEW p \in puts
               PROVE  FALSE
    OBVIOUS
  <2>1. p.kind \in Kinds
    BY DEF JournalInv, TypeOK, Put
  <2>2. PutHolds(p) /\ tx # NoTx
    BY <1>1 DEF JournalInv, PutsInv, NoTx
  <2> QED
    BY <1>1, <1>2, <2>1, <2>2 DEF PutHolds, Kinds
<1>5. ~sealed
  BY <1>2 DEF JournalInv, PutsInv
<1> QED
  BY <1>1, <1>2, <1>3, <1>4, <1>5

LEMMA CommitKeeps ==
    ASSUME JournalInv, DbCommit
    PROVE  JournalInv'
<1> DEFINE c == tx.intent.case
           s == SubjectOf[c]
           r == tx.intent.state.req
           p == [kind |-> "COMMIT", slot |-> tx.slot + 1, intent |-> NoIntent]
<1>1. /\ pending # NoIntent /\ tx.intent = pending /\ tx.slot = head /\ ~went /\ ~sealed
      /\ mode = "open" /\ pending \in Intent /\ Announces(pending) /\ Fresh(pending)
      /\ pending.era = era /\ puts = {}
  BY CommittingIntent
<1>2. /\ request' = [request EXCEPT ![c] = r]
      /\ live' = [live EXCEPT ![s] = @ /\ r.status \notin Erased]
      /\ marker' = [marker EXCEPT ![s] = @ \/ r.status \in Erased]
      /\ went' = TRUE /\ tx' = NoTx
      /\ puts' \subseteq {p}
      /\ UNCHANGED <<orders, backup, mode, era, head, cases, pending, sealed>>
  BY <1>1 DEF DbCommit, CommitTx
<1>3. c \in Cases /\ s \in Subjects /\ r \in Request /\ head \in Nat
  BY <1>1, JournalValues DEF JournalInv, Announces, Intent, CaseState
<1>4. TypeOK'
  <2>1. /\ request' \in [Cases -> Request]
        /\ live' \in [Subjects -> {TRUE, FALSE}] /\ marker' \in [Subjects -> {TRUE, FALSE}]
        /\ orders' \in [Subjects -> Nat]
    <3>1. request' \in [Cases -> Request] /\ orders' \in [Subjects -> Nat]
      BY <1>2, <1>3, JournalValues DEF JournalInv
    <3>2. live' \in [Subjects -> {TRUE, FALSE}]
      BY <1>2, JournalValues, Zenon DEF JournalInv
    <3>3. marker' \in [Subjects -> {TRUE, FALSE}]
      BY <1>2, JournalValues, Zenon DEF JournalInv
    <3> QED
      BY <3>1, <3>2, <3>3
  <2>2. Snapshot' \in Tables
    BY <2>1, Zenon DEF Snapshot, Tables
  <2>3. p \in Put
    BY <1>1, <1>3 DEF Put, Kinds
  <2> QED
    BY <1>2, <2>2, <2>3 DEF JournalInv, TypeOK
<1>5. PutsInv'
  <2> SUFFICES ASSUME NEW q \in puts'
               PROVE  PutHolds(q)'
    BY <1>1, <1>2 DEF PutsInv
  <2>1. q.kind = "COMMIT" /\ q.slot = head + 1
    BY <1>1, <1>2
  <2> QED
    BY <1>1, <1>2, <2>1 DEF PutHolds
<1>6. request'[c] = r
  BY <1>2, <1>3, JournalValues DEF JournalInv
<1>7. PendingInv'
  <2>1. Announces(pending)' /\ OfThisEra(pending)'
    BY <1>1, <1>2, JournalValues DEF JournalInv, OfThisEra, Announces
  <2> QED
    BY <1>1, <1>2, <1>6, <2>1 DEF PendingInv
<1>8. TxInv'
  BY <1>2 DEF TxInv, NoTx
<1>9. RowsInv'
  <2> SUFFICES ASSUME NEW d \in Cases
               PROVE  /\ \/ request'[d] = Decided(d)'
                         \/ cases'[d] = NoCase /\ request'[d].status \in Closed
                      /\ request'[d].status \in Erased =>
                            ~live'[SubjectOf[d]] /\ marker'[SubjectOf[d]]
    BY DEF RowsInv
  <2>1. /\ \/ request[d] = Decided(d)
           \/ cases[d] = NoCase /\ request[d].status \in Closed
        /\ request[d].status \in Erased => ~live[SubjectOf[d]] /\ marker[SubjectOf[d]]
    BY <1>1 DEF JournalInv, RowsInv
  <2>2. /\ SubjectOf[d] \in Subjects
        /\ live'[SubjectOf[d]] = IF SubjectOf[d] = s THEN live[s] /\ r.status \notin Erased
                                 ELSE live[SubjectOf[d]]
        /\ marker'[SubjectOf[d]] = IF SubjectOf[d] = s THEN marker[s] \/ r.status \in Erased
                                   ELSE marker[SubjectOf[d]]
    <3>1. SubjectOf[d] \in Subjects /\ live \in [Subjects -> {TRUE, FALSE}]
          /\ marker \in [Subjects -> {TRUE, FALSE}]
      BY JournalValues DEF JournalInv
    <3> QED
      BY <1>2, <3>1, Zenon
  <2>3. CASE d = c
    BY <1>1, <1>2, <1>6, <2>2, <2>3 DEF Decided
  <2>4. CASE d # c
    <3>1. request'[d] = request[d] /\ Decided(d)' = Decided(d)
      BY <1>1, <1>2, <2>4, JournalValues DEF JournalInv, Decided
    <3> QED
      BY <1>2, <2>1, <2>2, <3>1
  <2> QED
    BY <2>3, <2>4
<1> QED
  BY <1>4, <1>5, <1>7, <1>8, <1>9 DEF JournalInv

LEMMA TxLostKeeps ==
    ASSUME JournalInv, TxLost
    PROVE  JournalInv'
<1>1. tx # NoTx /\ tx' = NoTx
      /\ UNCHANGED <<request, live, marker, orders, backup, mode, era, head, cases, pending,
                     sealed, went, puts>>
  BY DEF TxLost, database, journal
<1>2. TypeOK'
  BY <1>1 DEF JournalInv, TypeOK, Snapshot
<1>3. PutsInv'
  BY <1>1 DEF JournalInv, PutsInv, PutHolds, OfThisEra, Fresh
<1>4. PendingInv'
  BY <1>1 DEF JournalInv, PendingInv, OfThisEra, Fresh
<1>5. TxInv'
  BY <1>1 DEF TxInv, NoTx
<1>6. RowsInv'
  BY <1>1 DEF JournalInv, RowsInv, Decided
<1> QED
  BY <1>2, <1>3, <1>4, <1>5, <1>6 DEF JournalInv

\* What the types say of the transaction.
LEMMA TxValues ==
    ASSUME TypeOK
    PROVE  /\ tx = NoTx \/ tx.kind \in {"transition", "reconcile"}
           /\ tx # NoTx => tx.slot \in Nat
           /\ tx.kind = "transition" =>
                 /\ tx \in [kind : {"transition"}, slot : Nat, intent : Intent,
                           wrote : {TRUE, FALSE}]
                 /\ tx.intent \in Intent /\ tx.intent # NoIntent
           /\ NoTx.kind = "none"
<1>1. NoTx.kind = "none"
  BY DEF NoTx
<1>2. tx = NoTx \/ tx \in Tx
  BY DEF TypeOK
<1>3. CASE tx \in [kind : {"reconcile"}, slot : Nat]
  BY <1>1, <1>3
<1>4. CASE tx \in [kind : {"transition"}, slot : Nat, intent : Intent, wrote : {TRUE, FALSE}]
  BY <1>1, <1>4, IntentIsNotNone
<1> QED
  BY <1>1, <1>2, <1>3, <1>4 DEF Tx

\* Its slot, once there is one more entry.
LEMMA TxStaysBehind ==
    ASSUME JournalInv, head' = head + 1, tx' = tx, mode' = mode, era' = era,
           tx.kind = "transition" => ~tx.wrote
    PROVE  TxInv'
<1>1. head \in Nat /\ (tx.kind = "reconcile" => tx.slot \in Nat /\ tx.slot <= head)
  BY TxValues, JournalValues DEF JournalInv, TxInv
<1>2. tx.kind = "reconcile" => tx.slot <= head' /\ head' # tx.slot
  BY <1>1
<1> QED
  BY <1>2 DEF JournalInv, TxInv

\* When a PUT arrives no other one is left, since all were for the same key.
LEMMA LandKeeps ==
    ASSUME JournalInv, NEW p \in puts, Land(p)
    PROVE  JournalInv'
<1> DEFINE took == tx.kind = "transition" /\ p.kind = "INTENT" /\ tx.slot = p.slot
                      /\ tx.intent = p.intent
<1>1. /\ p.slot = head + 1 /\ head' = p.slot
      /\ puts' = {q \in puts : q.slot > p.slot}
      /\ pending' = IF p.kind = "INTENT" THEN p.intent
                    ELSE IF p.kind = "SEAL" THEN pending ELSE NoIntent
      /\ cases' = IF p.kind \in {"COMMIT", "COMMITTED"}
                  THEN [cases EXCEPT ![pending.case] = pending.state] ELSE cases
      /\ sealed' = (sealed \/ p.kind = "SEAL")
      /\ went' = (went /\ p.kind # "INTENT")
      /\ tx' = IF took THEN [tx EXCEPT !.wrote = TRUE] ELSE tx
      /\ UNCHANGED <<request, live, marker, orders, backup, mode, era>>
  BY DEF Land, database
<1>2. PutHolds(p) /\ p.kind \in Kinds /\ ~sealed /\ head \in Nat
  BY JournalValues DEF JournalInv, PutsInv, TypeOK, Put
<1>3. puts' = {}
  BY <1>1, <1>2 DEF JournalInv, PutsInv, PutHolds
<1>4. /\ sealed' \in BOOLEAN /\ went' \in BOOLEAN
      /\ head' \in Nat \ {0} /\ puts' \subseteq Put
      /\ Snapshot' \in Tables /\ backup' \in Tables /\ era' \in Nat
      /\ mode' \in {"open", "restored", "reconciled"}
  <2>1. sealed' \in BOOLEAN /\ went' \in BOOLEAN
    BY <1>1, Zenon
  <2> QED
    BY <1>1, <1>2, <1>3, <2>1 DEF JournalInv, TypeOK, Snapshot
<1>5. CASE p.kind = "INTENT"
  <2>1. /\ pending = NoIntent /\ pending' = p.intent /\ cases' = cases /\ ~sealed'
        /\ ~went' /\ p.intent \in Intent /\ Announces(p.intent) /\ OfThisEra(p.intent)
        /\ (p.intent.era = era => Fresh(p.intent))
    BY <1>1, <1>2, <1>5 DEF PutHolds
  <2>2. ASSUME took
        PROVE  TxInv' /\ tx' \in Tx \cup {NoTx}
    <3>1. /\ tx.kind = "transition" /\ tx.slot = head + 1 /\ tx.intent = p.intent
          /\ tx' = [tx EXCEPT !.wrote = TRUE]
      BY <1>1, <2>2
    <3>2. tx \in [kind : {"transition"}, slot : Nat, intent : Intent, wrote : {TRUE, FALSE}]
      BY <3>1, TxValues DEF JournalInv
    <3>3. tx' = [kind |-> "transition", slot |-> tx.slot, intent |-> tx.intent, wrote |-> TRUE]
          /\ tx.slot \in Nat /\ tx.intent \in Intent
      BY <3>1, <3>2
    <3>4. tx' \in Tx
      BY <3>3, Zenon DEF Tx
    <3>5. TxInv'
      <4>1. mode = "open" /\ tx.intent.era = era
        BY <3>1 DEF JournalInv, TxInv
      <4> QED
        BY <1>1, <2>1, <3>1, <3>3, <4>1 DEF TxInv
    <3> QED
      BY <3>4, <3>5
  <2>3. ASSUME ~took
        PROVE  TxInv' /\ tx' \in Tx \cup {NoTx}
    <3>1. tx' = tx /\ tx \in Tx \cup {NoTx}
      BY <1>1, <2>3 DEF JournalInv, TypeOK
    <3>2. tx.kind = "transition" => ~tx.wrote
      BY <2>1, TxValues DEF JournalInv, TxInv
    <3>3. TxInv'
      BY <1>1, <3>1, <3>2, TxStaysBehind
    <3> QED
      BY <3>1, <3>3
  <2>4. TxInv' /\ tx' \in Tx \cup {NoTx}
    BY <2>2, <2>3
  <2>5. TypeOK'
    BY <1>4, <2>1, <2>4 DEF JournalInv, TypeOK
  <2>6. PendingInv'
    BY <1>1, <2>1 DEF PendingInv, OfThisEra, Fresh, Announces
  <2>7. PutsInv' /\ RowsInv'
    BY <1>1, <1>3, <2>1 DEF JournalInv, PutsInv, RowsInv, Decided
  <2> QED
    BY <2>4, <2>5, <2>6, <2>7 DEF JournalInv
<1>6. CASE p.kind = "SEAL"
  <2>1. /\ pending = NoIntent /\ pending' = NoIntent /\ cases' = cases
        /\ sealed' = TRUE /\ tx' = tx
    BY <1>1, <1>2, <1>6 DEF PutHolds
  <2>2. tx.kind = "transition" => ~tx.wrote
    BY <2>1, TxValues DEF JournalInv, TxInv
  <2>3. TxInv'
    BY <1>1, <2>1, <2>2, TxStaysBehind
  <2>5. TypeOK'
    BY <1>4, <2>1 DEF JournalInv, TypeOK
  <2>6. PendingInv' /\ PutsInv' /\ RowsInv'
    BY <1>1, <1>3, <2>1 DEF JournalInv, PendingInv, PutsInv, RowsInv, Decided
  <2> QED
    BY <2>3, <2>5, <2>6 DEF JournalInv
<1>7. CASE p.kind \in {"COMMIT", "COMMITTED", "NOT_COMMITTED"}
  <2>1. /\ pending # NoIntent /\ pending' = NoIntent /\ ~sealed' /\ tx' = tx /\ went' = went
        /\ pending \in Intent /\ Announces(pending)
        /\ p.kind \in {"COMMIT", "COMMITTED"} <=> went
    BY <1>1, <1>2, <1>7 DEF PutHolds, JournalInv, PendingInv, TypeOK
  <2>2. tx.kind = "transition" => ~tx.wrote
    BY <1>2, <1>7, <2>1, TxValues DEF PutHolds, JournalInv, TxInv
  <2>3. TxInv'
    BY <1>1, <2>1, <2>2, TxStaysBehind
  <2>4. pending.case \in Cases /\ pending.state \in CaseState /\ pending.state.req # NoRequest
    BY <2>1 DEF Intent, Announces
  <2>5. cases' = IF went THEN [cases EXCEPT ![pending.case] = pending.state] ELSE cases
    BY <1>1, <2>1
  <2>6. cases' \in [Cases -> CaseState]
    BY <2>4, <2>5, JournalValues DEF JournalInv
  <2>7. TypeOK'
    BY <1>4, <2>1, <2>6 DEF JournalInv, TypeOK
  <2>8. PendingInv' /\ PutsInv'
    BY <1>3, <2>1 DEF PendingInv, PutsInv
  <2>9. RowsInv'
    <3> SUFFICES ASSUME NEW d \in Cases, mode # "restored"
                 PROVE  \/ request[d] = Decided(d)'
                        \/ cases'[d] = NoCase /\ request[d].status \in Closed
      BY <1>1 DEF JournalInv, RowsInv
    <3>1. Decided(d)' = Decided(d)
      BY <2>1, <2>4, <2>5, JournalValues DEF JournalInv, Decided
    <3>2. CASE went /\ d = pending.case
      BY <2>1, <3>1, <3>2 DEF JournalInv, PendingInv, Decided
    <3>3. CASE ~(went /\ d = pending.case)
      <4>1. cases'[d] = cases[d]
        BY <2>4, <2>5, <3>3, JournalValues DEF JournalInv
      <4> QED
        BY <3>1, <4>1 DEF JournalInv, RowsInv
    <3> QED
      BY <3>2, <3>3
  <2> QED
    BY <2>3, <2>7, <2>8, <2>9 DEF JournalInv
<1> QED
  BY <1>2, <1>5, <1>6, <1>7 DEF Kinds

LEMMA VanishKeeps ==
    ASSUME JournalInv, NEW p \in puts, Vanish(p)
    PROVE  JournalInv'
<1>1. puts' = puts \ {p}
      /\ UNCHANGED <<request, live, marker, orders, backup, mode, era, head, cases, pending,
                     sealed, went, tx>>
  BY DEF Vanish, database, journal
<1>2. TypeOK'
  BY <1>1 DEF JournalInv, TypeOK, Snapshot
<1>3. PutsInv'
  BY <1>1 DEF JournalInv, PutsInv, PutHolds, OfThisEra, Fresh
<1>4. PendingInv' /\ TxInv' /\ RowsInv'
  BY <1>1 DEF JournalInv, PendingInv, OfThisEra, Fresh, TxInv, RowsInv, Decided
<1> QED
  BY <1>2, <1>3, <1>4 DEF JournalInv

LEMMA OrderChangeKeeps ==
    ASSUME JournalInv, NEW s \in Subjects, OrderChange(s)
    PROVE  JournalInv'
<1>1. /\ ~marker[s] /\ mode = "open" /\ tx = NoTx
      /\ live' = [live EXCEPT ![s] = TRUE]
      /\ orders' = [orders EXCEPT ![s] = @ + 1]
      /\ UNCHANGED <<request, marker, backup, mode, era, head, cases, pending, sealed, went,
                     puts, tx>>
  BY DEF OrderChange, ChangeOrders, journal
<1>2. TypeOK'
  <2>1. live' \in [Subjects -> {TRUE, FALSE}]
    BY <1>1, JournalValues, Zenon DEF JournalInv
  <2>2. orders' \in [Subjects -> Nat]
    BY <1>1, JournalValues DEF JournalInv
  <2>3. Snapshot' \in Tables
    <3>1. /\ request' \in [Cases -> Request] /\ marker' \in [Subjects -> {TRUE, FALSE}]
      BY <1>1, JournalValues DEF JournalInv
    <3> QED
      BY <2>1, <2>2, <3>1, Zenon DEF Snapshot, Tables
  <2> QED
    BY <1>1, <2>3 DEF JournalInv, TypeOK
<1>3. PutsInv'
  BY <1>1 DEF JournalInv, PutsInv, PutHolds, OfThisEra, Fresh
<1>4. PendingInv' /\ TxInv'
  BY <1>1 DEF JournalInv, PendingInv, OfThisEra, Fresh, TxInv
<1>5. RowsInv'
  <2> SUFFICES ASSUME NEW c \in Cases, request[c].status \in Erased
               PROVE  ~live'[SubjectOf[c]]
    BY <1>1 DEF JournalInv, RowsInv, Decided
  <2>1. ~live[SubjectOf[c]] /\ SubjectOf[c] # s
    BY <1>1 DEF JournalInv, RowsInv
  <2> QED
    BY <1>1, <2>1, JournalValues DEF JournalInv
<1> QED
  BY <1>2, <1>3, <1>4, <1>5 DEF JournalInv

LEMMA BackupKeeps ==
    ASSUME JournalInv, Backup
    PROVE  JournalInv'
<1>1. backup' = Snapshot
      /\ UNCHANGED <<request, live, marker, orders, mode, era, head, cases, pending, sealed,
                     went, puts, tx>>
  BY DEF Backup, database, journal
<1>2. TypeOK'
  BY <1>1 DEF JournalInv, TypeOK, Snapshot
<1>3. PutsInv'
  BY <1>1 DEF JournalInv, PutsInv, PutHolds, OfThisEra, Fresh
<1>4. PendingInv' /\ TxInv' /\ RowsInv'
  BY <1>1 DEF JournalInv, PendingInv, OfThisEra, Fresh, TxInv, RowsInv, Decided
<1> QED
  BY <1>2, <1>3, <1>4 DEF JournalInv

\* No intent is of the era that begins.
LEMMA ErasOfIntents ==
    ASSUME JournalInv
    PROVE  /\ era \in Nat
           /\ \A p \in puts : p.kind = "INTENT" => p.intent.era \in Nat /\ p.intent.era <= era
           /\ pending # NoIntent => pending.era \in Nat /\ pending.era <= era
<1>1. \A i \in Intent : i.era \in Nat
  BY DEF Intent
<1> QED
  BY <1>1, JournalValues DEF JournalInv, PutsInv, PutHolds, PendingInv, TypeOK, OfThisEra

LEMMA RestoreKeeps ==
    ASSUME JournalInv, Restore
    PROVE  JournalInv'
<1>1. /\ request' = backup.request /\ live' = backup.live
      /\ marker' = backup.marker /\ orders' = backup.orders
      /\ mode' = "restored" /\ era' = era + 1 /\ tx' = NoTx
      /\ UNCHANGED <<backup, head, cases, pending, sealed, went, puts>>
  BY DEF Restore, journal
<1>2. TypeOK'
  <2>1. Snapshot' = backup
    BY <1>1, Zenon DEF JournalInv, TypeOK, Snapshot, Tables
  <2>2. era' \in Nat
    BY <1>1, ErasOfIntents
  <2> QED
    BY <1>1, <2>1, <2>2 DEF JournalInv, TypeOK
<1>3. PutsInv'
  <2> SUFFICES ASSUME NEW p \in puts
               PROVE  PutHolds(p)'
    BY <1>1 DEF JournalInv, PutsInv
  <2>1. PutHolds(p) /\ (p.kind = "INTENT" => p.intent.era <= era' /\ p.intent.era # era')
    BY <1>1, ErasOfIntents DEF JournalInv, PutsInv
  <2> QED
    BY <1>1, <2>1 DEF PutHolds, OfThisEra, Announces
<1>4. PendingInv'
  <2>1. pending # NoIntent => pending.era <= era' /\ pending.era # era'
    BY <1>1, ErasOfIntents
  <2> QED
    BY <1>1, <2>1 DEF JournalInv, PendingInv, OfThisEra, Announces
<1>5. TxInv' /\ RowsInv'
  BY <1>1 DEF TxInv, RowsInv, NoTx
<1> QED
  BY <1>2, <1>3, <1>4, <1>5 DEF JournalInv

LEMMA ReconcileBeginKeeps ==
    ASSUME JournalInv, ReconcileBegin
    PROVE  JournalInv'
<1>1. /\ mode = "restored" /\ tx = NoTx /\ pending = NoIntent
      /\ \A c \in Cases : cases[c].req = NoRequest => request[c] = NoRequest
      /\ tx' = [kind |-> "reconcile", slot |-> head]
      /\ UNCHANGED <<request, live, marker, orders, backup, mode, era, head, cases, pending,
                     sealed, went, puts>>
  BY DEF ReconcileBegin, database, journal
<1>2. head \in Nat /\ tx'.kind = "reconcile" /\ tx'.slot = head
  BY <1>1, JournalValues DEF JournalInv
<1>3. TypeOK'
  <2>1. tx' \in Tx
    BY <1>1, <1>2 DEF Tx
  <2> QED
    BY <1>1, <2>1 DEF JournalInv, TypeOK, Snapshot
<1>4. PutsInv'
  BY <1>1 DEF JournalInv, PutsInv, PutHolds, OfThisEra, Fresh
<1>5. PendingInv' /\ RowsInv'
  BY <1>1 DEF JournalInv, PendingInv, RowsInv
<1>6. TxInv'
  BY <1>1, <1>2 DEF TxInv
<1> QED
  BY <1>3, <1>4, <1>5, <1>6 DEF JournalInv

LEMMA ReconcileCommitKeeps ==
    ASSUME JournalInv, ReconcileCommit
    PROVE  JournalInv'
<1> DEFINE gone == {SubjectOf[c] : c \in {d \in Cases : ErasedCase(d)}}
<1>1. /\ tx.kind = "reconcile" /\ head = tx.slot /\ pending = NoIntent
      /\ request' = [c \in Cases |-> IF cases[c].req = NoRequest THEN request[c]
                                     ELSE cases[c].req]
      /\ live' = [s \in Subjects |-> live[s] /\ s \notin gone]
      /\ marker' = [s \in Subjects |-> marker[s] \/ s \in gone]
      /\ mode' = "reconciled" /\ tx' = NoTx
      /\ UNCHANGED <<orders, backup, era, head, cases, pending, sealed, went, puts>>
  BY DEF ReconcileCommit, journal
<1>2. mode = "restored" /\ \A c \in Cases : request'[c] = cases[c].req
  BY <1>1 DEF JournalInv, TxInv
<1>3. TypeOK'
  <2>1. request' \in [Cases -> Request] /\ orders' \in [Subjects -> Nat]
    BY <1>1, JournalValues DEF JournalInv
  <2>2. live' \in [Subjects -> {TRUE, FALSE}] /\ marker' \in [Subjects -> {TRUE, FALSE}]
    BY <1>1, Zenon
  <2>3. Snapshot' \in Tables
    BY <2>1, <2>2, Zenon DEF Snapshot, Tables
  <2> QED
    BY <1>1, <2>3 DEF JournalInv, TypeOK
<1>4. PutsInv'
  <2> SUFFICES ASSUME NEW p \in puts
               PROVE  PutHolds(p)'
    BY <1>1 DEF JournalInv, PutsInv
  <2>1. PutHolds(p) /\ (p.kind = "INTENT" => p.intent.era # era)
    BY <1>2 DEF JournalInv, PutsInv, PutHolds, OfThisEra
  <2> QED
    BY <1>1, <2>1 DEF PutHolds, OfThisEra, Announces
<1>5. PendingInv' /\ TxInv'
  BY <1>1 DEF PendingInv, TxInv, NoTx
<1>6. RowsInv'
  <2> SUFFICES ASSUME NEW c \in Cases
               PROVE  /\ request'[c] = Decided(c)'
                      /\ request'[c].status \in Erased =>
                            ~live'[SubjectOf[c]] /\ marker'[SubjectOf[c]]
    BY DEF RowsInv
  <2>1. request'[c] = Decided(c)'
    BY <1>1, <1>2 DEF Decided
  <2>2. request'[c].status \in Erased => SubjectOf[c] \in gone
    BY <1>2 DEF ErasedCase
  <2> QED
    BY <1>1, <2>1, <2>2, JournalValues DEF JournalInv
<1> QED
  BY <1>3, <1>4, <1>5, <1>6 DEF JournalInv

LEMMA ReopenKeeps ==
    ASSUME JournalInv, Reopen
    PROVE  JournalInv'
<1>1. mode = "reconciled" /\ mode' = "open"
      /\ UNCHANGED <<request, live, marker, orders, backup, era, head, cases, pending, sealed,
                     went, puts, tx>>
  BY DEF Reopen, database, journal
<1>2. TypeOK'
  BY <1>1 DEF JournalInv, TypeOK, Snapshot
<1>3. PutsInv'
  BY <1>1 DEF JournalInv, PutsInv, PutHolds, OfThisEra, Fresh
<1>4. PendingInv' /\ TxInv' /\ RowsInv'
  BY <1>1 DEF JournalInv, PendingInv, OfThisEra, Fresh, TxInv, RowsInv, Decided
<1> QED
  BY <1>2, <1>3, <1>4 DEF JournalInv

\* The operator records the outcome there was: the rows have the image after the intent
\* exactly when its transaction committed.
LEMMA OutcomeIsRight ==
    ASSUME JournalInv, pending # NoIntent, pending.era = era,
           (Now(pending.case) = pending.before) # (Now(pending.case) = pending.after)
    PROVE  Now(pending.case) = pending.after <=> went
<1> DEFINE c == pending.case
<1>1. Announces(pending) /\ mode = "open" /\ c \in Cases
  BY DEF JournalInv, PendingInv, OfThisEra, Announces
<1>2. CASE went
  <2>1. request[c] = pending.state.req /\ pending.state.req # NoRequest
    BY <1>1, <1>2 DEF JournalInv, PendingInv, Announces
  <2>2. Now(c).req = pending.state.req
    BY <2>1 DEF Now, EvidenceOf
  <2>3. Now(c) = pending.before => pending.before = pending.after
    BY <1>1, <2>2 DEF Announces
  <2> QED
    BY <1>2, <2>3
<1>3. CASE ~went
  <2>1. Fresh(pending)
    BY <1>3 DEF JournalInv, PendingInv
  <2>2. Now(c) = pending.after => request[c] = pending.state.req
    BY <1>1 DEF Now, EvidenceOf, Absent, Announces
  <2>3. Now(c) = pending.after => pending.before = pending.after
    BY <2>1, <2>2 DEF Fresh
  <2> QED
    BY <1>3, <2>3
<1> QED
  BY <1>2, <1>3

LEMMA ResolveKeeps ==
    ASSUME JournalInv, Resolve
    PROVE  JournalInv'
<1> DEFINE kind == IF Now(pending.case) = pending.after THEN "COMMITTED" ELSE "NOT_COMMITTED"
           p == [kind |-> kind, slot |-> head + 1, intent |-> NoIntent]
<1>1. /\ pending # NoIntent /\ tx = NoTx /\ ~sealed /\ puts' = puts \cup {p}
      /\ UNCHANGED <<request, live, marker, orders, backup, mode, era, head, cases, pending,
                     sealed, went, tx>>
  BY DEF Resolve, Observe, database, journal
<1>2. kind = IF went THEN "COMMITTED" ELSE "NOT_COMMITTED"
  BY OutcomeIsRight DEF Resolve, Observe
<1> HIDE DEF kind
<1>3. TypeOK'
  <2>1. p \in Put
    BY <1>2, JournalValues DEF JournalInv, Put, Kinds
  <2> QED
    BY <1>1, <2>1 DEF JournalInv, TypeOK, Snapshot
<1>4. \A q \in puts : PutHolds(q)'
  BY <1>1 DEF JournalInv, PutsInv, PutHolds, OfThisEra, Fresh
<1>5. ASSUME NEW q, q = p
      PROVE  PutHolds(q)'
  <2>1. q.kind = kind /\ q.slot = head + 1
    BY <1>5
  <2> QED
    BY <1>1, <1>2, <2>1 DEF PutHolds
<1>6. PutsInv'
  BY <1>1, <1>4, <1>5 DEF PutsInv
<1>7. PendingInv' /\ TxInv' /\ RowsInv'
  BY <1>1 DEF JournalInv, PendingInv, OfThisEra, Fresh, TxInv, RowsInv, Decided
<1> QED
  BY <1>3, <1>6, <1>7 DEF JournalInv

LEMMA SealKeeps ==
    ASSUME JournalInv, Seal
    PROVE  JournalInv'
<1> DEFINE p == [kind |-> "SEAL", slot |-> head + 1, intent |-> NoIntent]
<1>1. /\ pending = NoIntent /\ ~sealed /\ puts' = puts \cup {p}
      /\ UNCHANGED <<request, live, marker, orders, backup, mode, era, head, cases, pending,
                     sealed, went, tx>>
  BY DEF Seal, Ready, database, journal
<1>2. TypeOK'
  <2>1. p \in Put
    BY JournalValues DEF JournalInv, Put, Kinds
  <2> QED
    BY <1>1, <2>1 DEF JournalInv, TypeOK, Snapshot
<1>3. \A q \in puts : PutHolds(q)'
  BY <1>1 DEF JournalInv, PutsInv, PutHolds, OfThisEra, Fresh
<1>4. ASSUME NEW q, q = p
      PROVE  PutHolds(q)'
  <2>1. q.kind = "SEAL" /\ q.slot = head + 1
    BY <1>4
  <2> QED
    BY <1>1, <2>1 DEF PutHolds
<1>5. PutsInv'
  BY <1>1, <1>3, <1>4 DEF PutsInv
<1>6. PendingInv' /\ TxInv' /\ RowsInv'
  BY <1>1 DEF JournalInv, PendingInv, OfThisEra, Fresh, TxInv, RowsInv, Decided
<1> QED
  BY <1>2, <1>5, <1>6 DEF JournalInv

LEMMA SuccessorKeeps ==
    ASSUME JournalInv, NEW R \in SUBSET Cases, Successor(R)
    PROVE  JournalInv'
<1>1. /\ sealed /\ puts' = {} /\ tx' = NoTx /\ sealed' = FALSE /\ era' = era + 1
      /\ cases' = [c \in Cases |-> IF c \in R THEN NoCase ELSE cases[c]]
      /\ head' = 2 + Cardinality({c \in Cases \ R : cases[c].req # NoRequest})
      /\ \A c \in R : cases[c].req.status \in Closed
      /\ UNCHANGED <<request, live, marker, orders, backup, mode, pending, went>>
  BY DEF Successor, database
<1>2. pending = NoIntent
  BY <1>1 DEF JournalInv, PutsInv
<1>3. TypeOK'
  <2>1. head' \in Nat \ {0}
    <3>1. IsFiniteSet({c \in Cases \ R : cases[c].req # NoRequest})
      BY JournalAssumption, FS_Subset
    <3>2. Cardinality({c \in Cases \ R : cases[c].req # NoRequest}) \in Nat
      BY <3>1, FS_CardinalityType
    <3> QED
      BY <1>1, <3>2
  <2>2. cases' \in [Cases -> CaseState] /\ era' \in Nat
    <3>1. NoCase \in CaseState
      BY AbsentRow DEF NoCase, CaseState
    <3> QED
      BY <1>1, <3>1, JournalValues DEF JournalInv
  <2> QED
    BY <1>1, <2>1, <2>2 DEF JournalInv, TypeOK, Snapshot
<1>4. PutsInv' /\ PendingInv' /\ TxInv'
  BY <1>1, <1>2 DEF PutsInv, PendingInv, TxInv, NoTx
<1>5. RowsInv'
  <2> SUFFICES ASSUME NEW c \in Cases, mode # "restored"
               PROVE  \/ request[c] = Decided(c)'
                      \/ cases'[c] = NoCase /\ request[c].status \in Closed
    BY <1>1 DEF JournalInv, RowsInv
  <2>1. \/ request[c] = cases[c].req
        \/ cases[c] = NoCase /\ request[c].status \in Closed
    BY <1>2 DEF JournalInv, RowsInv, Decided
  <2> QED
    BY <1>1, <1>2, <2>1 DEF Decided
<1> QED
  BY <1>3, <1>4, <1>5 DEF JournalInv

LEMMA JournalGoesOn ==
    ASSUME JournalInv, [Next]_vars
    PROVE  JournalInv'
<1>1. ASSUME UNCHANGED vars
      PROVE  JournalInv'
  <2>1. UNCHANGED <<request, live, marker, orders, backup, mode, era, head, cases, pending,
                    sealed, went, puts, tx>>
    BY <1>1 DEF vars, database, journal
  <2>2. TypeOK' /\ PutsInv'
    BY <2>1 DEF JournalInv, TypeOK, Snapshot, PutsInv, PutHolds, OfThisEra, Fresh
  <2>3. PendingInv' /\ TxInv' /\ RowsInv'
    BY <2>1 DEF JournalInv, PendingInv, OfThisEra, Fresh, TxInv, RowsInv, Decided
  <2> QED
    BY <2>2, <2>3 DEF JournalInv
<1>2. ASSUME Next
      PROVE  JournalInv'
  BY <1>2, HandlersKeep, CommitKeeps, TxLostKeeps, LandKeeps, VanishKeeps, OrderChangeKeeps,
     BackupKeeps, RestoreKeeps, ReconcileBeginKeeps, ReconcileCommitKeeps, ReopenKeeps,
     ResolveKeeps, SealKeeps, SuccessorKeeps DEF Next
<1> QED
  BY <1>1, <1>2

LEMMA JournalStands == Spec => []JournalInv
BY JournalBegins, JournalGoesOn, PTL DEF Spec

\* Requests, images, entries, PUTs and transactions keep their types.
THEOREM JournalTypes == Spec => []TypeOK
<1>1. JournalInv => TypeOK
  BY DEF JournalInv
<1> QED
  BY <1>1, JournalStands, PTL

\* Whoever is served finds the requests as they were decided, whatever crashed, was lost,
\* arrived late or was restored before (transition(), reconcileRecoveryTransaction(),
\* runPrivacyOperator()).
THEOREM RequestsAreServedAsDecided == Spec => []ServedAsDecided
<1>1. JournalInv => ServedAsDecided
  BY DEF JournalInv, RowsInv, ServedAsDecided
<1> QED
  BY <1>1, JournalStands, PTL

\* No crash, restore, successor journal or new order brings an erased customer's profile
\* back (fulfill(), eraseScoped(), assertPrivacyOrderAllowed()).
THEOREM ErasureIsFinal == Spec => []ErasureHolds
<1>1. JournalInv => ErasureHolds
  BY DEF JournalInv, PendingInv, RowsInv, ErasureHolds, Decided, NoCase, NoRequest, Erased
<1> QED
  BY <1>1, JournalStands, PTL

-----------------------------------------------------------------------------
(***************************************************************************)
(* The ledger of decisions                                                 *)
(***************************************************************************)

\* What has been decided changes only when a transition commits or a successor journal
\* leaves closed requests out.
DecidedUnchanged == \A c \in Cases : Decided(c)' = Decided(c)

LEMMA LandDecidesNothing ==
    ASSUME JournalInv, NEW p \in puts, Land(p)
    PROVE  DecidedUnchanged
<1>1. /\ pending' = IF p.kind = "INTENT" THEN p.intent
                    ELSE IF p.kind = "SEAL" THEN pending ELSE NoIntent
      /\ cases' = IF p.kind \in {"COMMIT", "COMMITTED"}
                  THEN [cases EXCEPT ![pending.case] = pending.state] ELSE cases
      /\ went' = (went /\ p.kind # "INTENT")
  BY DEF Land
<1>2. PutHolds(p) /\ p.kind \in Kinds
  BY DEF JournalInv, PutsInv, TypeOK, Put
<1>3. CASE p.kind \in {"INTENT", "SEAL"}
  BY <1>1, <1>2, <1>3 DEF PutHolds, DecidedUnchanged, Decided
<1>4. CASE p.kind \in {"COMMIT", "COMMITTED"}
  <2>1. went /\ pending # NoIntent /\ pending' = NoIntent
        /\ cases' = [cases EXCEPT ![pending.case] = pending.state]
    BY <1>1, <1>2, <1>4 DEF PutHolds
  <2> QED
    BY <2>1, JournalValues DEF JournalInv, DecidedUnchanged, Decided
<1>5. CASE p.kind = "NOT_COMMITTED"
  <2>1. ~went /\ pending' = NoIntent /\ cases' = cases
    BY <1>1, <1>2, <1>5 DEF PutHolds
  <2> QED
    BY <2>1 DEF DecidedUnchanged, Decided
<1> QED
  BY <1>2, <1>3, <1>4, <1>5 DEF Kinds

\* The decision that the committing transition takes.
LEMMA CommitDecides ==
    ASSUME JournalInv, DbCommit
    PROVE  \E c \in Cases : \E r :
              /\ \A d \in Cases : Decided(d)' = IF d = c THEN r ELSE Decided(d)
              /\ \/ r = Decided(c)
                 \/ r \in Steps(Decided(c))
                 \/ /\ r \in Submitted(Decided(c))
                    /\ \A d \in Cases : SubjectOf[d] = SubjectOf[c] =>
                           Decided(d).status \notin Active \cup Erased
<1> DEFINE c == pending.case
           r == pending.state.req
<1>1. /\ pending # NoIntent /\ ~went /\ mode = "open" /\ Fresh(pending) /\ c \in Cases
      /\ went' = TRUE /\ UNCHANGED <<cases, pending>>
  BY CommittingIntent DEF DbCommit, CommitTx, Announces
<1>2. \A d \in Cases : Decided(d) = cases[d].req /\ Decided(d)' = IF d = c THEN r ELSE Decided(d)
  BY <1>1 DEF Decided
<1>3. Decided(c) = request[c]
  BY <1>1, <1>2 DEF Fresh
<1>4. \A d \in Cases : request[d].status \notin Active \cup Erased =>
         Decided(d).status \notin Active \cup Erased
  <2> SUFFICES ASSUME NEW d \in Cases, request[d].status \notin Active \cup Erased
               PROVE  Decided(d).status \notin Active \cup Erased
    OBVIOUS
  <2>1. \/ request[d] = Decided(d)
        \/ cases[d] = NoCase
    BY <1>1 DEF JournalInv, RowsInv
  <2> QED
    BY <1>2, <2>1 DEF NoCase, NoRequest, Active, Erased
<1>5. \/ r = Decided(c)
      \/ r \in Steps(Decided(c))
      \/ /\ r \in Submitted(Decided(c))
         /\ \A d \in Cases : SubjectOf[d] = SubjectOf[c] =>
                Decided(d).status \notin Active \cup Erased
  BY <1>1, <1>3, <1>4 DEF Fresh
<1> QED
  BY <1>1, <1>2, <1>5

\* The ledger decides by the same policy.
LEMMA LedgerPolicy ==
    /\ \A r : Ledger!Submitted(r) = Submitted(r) /\ Ledger!Steps(r) = Steps(r)
    /\ Ledger!Active = Active /\ Ledger!Erased = Erased /\ Ledger!Closed = Closed
    /\ Ledger!NoRequest = NoRequest
<1>1. /\ Ledger!Active = Active /\ Ledger!Erased = Erased /\ Ledger!Closed = Closed
      /\ Ledger!NoRequest = NoRequest
  BY DEF Ledger!Active, Active, Ledger!Erased, Erased, Ledger!Closed, Closed, Ledger!NoRequest,
         NoRequest
<1>2. \A r, s : Ledger!Bump(r, s) = Bump(r, s)
  BY DEF Ledger!Bump, Bump
<1>3. \A r : Ledger!Submitted(r) = Submitted(r)
  BY <1>1 DEF Ledger!Submitted, Submitted
<1>4. \A r : Ledger!Resolved(r) = Resolved(r)
  BY DEF Ledger!Resolved, Resolved
<1>5. \A r : Ledger!Steps(r) = Steps(r)
  BY <1>1, <1>2, <1>4 DEF Ledger!Steps, Steps, Ledger!Recovered, Recovered, Ledger!Held, Held,
         Ledger!Cancelled, Cancelled, Ledger!Fulfilled, Fulfilled, Ledger!Completed, Completed
<1> QED
  BY <1>1, <1>3, <1>5

LEMMA LedgerSteps ==
    ASSUME JournalInv, [Next]_vars
    PROVE  [Ledger!Next]_([c \in Cases |-> Decided(c)])
<1> DEFINE decision == [c \in Cases |-> Decided(c)]
<1>1. ASSUME DecidedUnchanged
      PROVE  decision' = decision
  BY <1>1 DEF DecidedUnchanged
<1>2. CASE DbCommit
  <2>1. PICK c \in Cases : \E r :
              /\ \A d \in Cases : Decided(d)' = IF d = c THEN r ELSE Decided(d)
              /\ \/ r = Decided(c)
                 \/ r \in Steps(Decided(c))
                 \/ /\ r \in Submitted(Decided(c))
                    /\ \A d \in Cases : SubjectOf[d] = SubjectOf[c] =>
                           Decided(d).status \notin Active \cup Erased
    BY <1>2, CommitDecides
  <2>2. PICK r :
              /\ \A d \in Cases : Decided(d)' = IF d = c THEN r ELSE Decided(d)
              /\ \/ r = Decided(c)
                 \/ r \in Steps(Decided(c))
                 \/ /\ r \in Submitted(Decided(c))
                    /\ \A d \in Cases : SubjectOf[d] = SubjectOf[c] =>
                           Decided(d).status \notin Active \cup Erased
    BY <2>1
  <2>3. decision' = [decision EXCEPT ![c] = r]
    BY <2>2
  <2>4. \A d \in Cases : decision[d] = Decided(d)
    OBVIOUS
  <2>5. CASE r = Decided(c)
    BY <2>2, <2>3, <2>5
  <2>6. CASE r \in Steps(Decided(c))
    BY <2>3, <2>4, <2>6, LedgerPolicy DEF Ledger!Next, Ledger!Decide
  <2>7. CASE /\ r \in Submitted(Decided(c))
             /\ \A d \in Cases : SubjectOf[d] = SubjectOf[c] =>
                    Decided(d).status \notin Active \cup Erased
    BY <2>3, <2>4, <2>7, LedgerPolicy DEF Ledger!Next, Ledger!Submit
  <2> QED
    BY <2>2, <2>5, <2>6, <2>7
<1>3. ASSUME NEW R \in SUBSET Cases, Successor(R)
      PROVE  Ledger!Retire(R)
  <2>1. /\ sealed /\ UNCHANGED <<pending, went>>
        /\ cases' = [c \in Cases |-> IF c \in R THEN NoCase ELSE cases[c]]
        /\ \A c \in R : cases[c].req.status \in Closed
    BY <1>3 DEF Successor
  <2>2. pending = NoIntent
    BY <2>1 DEF JournalInv, PutsInv
  <2>3. \A c \in Cases : Decided(c) = cases[c].req
                         /\ Decided(c)' = IF c \in R THEN NoRequest ELSE Decided(c)
    BY <2>1, <2>2 DEF Decided, NoCase
  <2>4. decision' = [c \in Cases |-> IF c \in R THEN NoRequest ELSE decision[c]]
    BY <2>3
  <2>5. \A c \in R : decision[c].status \in Closed
    BY <2>1, <2>3
  <2> QED
    BY <2>4, <2>5, LedgerPolicy DEF Ledger!Retire
<1>4. ASSUME NEW p \in puts, Land(p)
      PROVE  DecidedUnchanged
  BY <1>4, LandDecidesNothing
<1>5. CASE UNCHANGED journal
  BY <1>5, <1>1 DEF journal, DecidedUnchanged, Decided
<1>6. \/ DbCommit
      \/ \E R \in SUBSET Cases : Successor(R)
      \/ \E p \in puts : Land(p)
      \/ UNCHANGED journal
  BY DEF Next, vars, Submit, RecoverCredential, Decide, Fulfill, Repeat, Transition, TxLost, Vanish,
         OrderChange, ChangeOrders, Backup, Restore, ReconcileBegin, ReconcileCommit, Reopen,
         Resolve, Observe, Seal
<1> QED
  BY <1>1, <1>2, <1>3, <1>4, <1>5, <1>6 DEF Ledger!Next

\* However often the server dies, a PUT is lost or late, or the database is replaced by an
\* older one, the two histories are a history of one ledger: each decision is taken once,
\* by the policy, and stands (DecisionLedger; privacyRecovery.service.ts).
THEOREM JournalImplementsLedger == Spec => ImplementsLedger
<1>1. Init => Ledger!Init
  BY LedgerPolicy DEF Init, Ledger!Init, Decided, NoCase
<1>2. JournalInv /\ [Next]_vars => [Ledger!Next]_([c \in Cases |-> Decided(c)])
  BY LedgerSteps
<1> QED
  BY <1>1, <1>2, JournalStands, PTL DEF Spec, ImplementsLedger, Ledger!Spec
-----------------------------------------------------------------------------
(***************************************************************************)
(* Codes, credentials and requests                                         *)
(***************************************************************************)

Comparing(c) == {v \in Checks : check[v].pc = "comparing" /\ check[v].challenge = c}

CodesTyped ==
    /\ born \in Nat
    /\ row \in [Challenges -> Row \union {NoChallenge}]
    /\ sending \in [Challenges -> {"no", "calling", "accepted", "over"}]
    /\ check \in [Checks -> Check \union {IdleCheck}]
    /\ compared \in [Challenges -> Nat]
    /\ sends \in [Challenges -> Nat]

\* An attempt is counted before its comparison, and a code is sent when its row is made,
\* or when a grant that was not redeemed is.
Counted(c) ==
    /\ ~Exists(c) => compared[c] = 0 /\ sends[c] = 0 /\ Comparing(c) = {} /\ sending[c] = "no"
    /\ Exists(c) => compared[c] + Cardinality(Comparing(c)) <= row[c].attempts
    /\ Exists(c) /\ row[c].delivery = "INTAKE_READY" => sends[c] = 0
    /\ sends[c] <= 1

CodesCounted == \A c \in Challenges : Counted(c)

\* Of an erased customer every code is used up.
CodesUsed == ~account => \A c \in Challenges : Exists(c) => row[c].consumed

CustomerInv ==
    /\ credential \in [Devices -> {"none", "usable", "revoked"}]
    /\ status \in [Requests -> {"none", "active", "cancelled", "erased"}]
    /\ \A d, e \in Devices : credential[d] = "usable" /\ credential[e] = "usable" => d = e
    /\ \A r, s \in Requests : IsActive(r) /\ IsActive(s) => r = s
    /\ ~account => /\ \A d \in Devices : credential[d] # "usable"
                   /\ \A r \in Requests : ~IsActive(r)

\* A step leaves what limits a code as it is, or uses it up.
KeptOrUsed(c) ==
    /\ Exists(c)' <=> Exists(c)
    /\ Exists(c) => /\ row'[c].purpose = row[c].purpose
                    /\ row'[c].delivery = row[c].delivery
                    /\ row'[c].attempts = row[c].attempts
                    /\ row'[c].expired = row[c].expired
                    /\ row[c].consumed => row'[c].consumed

RequestsInv == CodesTyped /\ CodesCounted /\ OneUsableCode /\ CodesUsed /\ CustomerInv

LEMMA RequestsBegin == RequestsInit => RequestsInv
<1> SUFFICES ASSUME RequestsInit
             PROVE  RequestsInv
  OBVIOUS
<1> USE DEF RequestsInit
<1>1. CodesTyped
  BY DEF CodesTyped
<1>2. CodesCounted /\ OneUsableCode
  BY DEF CodesCounted, Counted, Comparing, IdleCheck, Exists, OneUsableCode, Usable, Open
<1>3. CodesUsed /\ CustomerInv
  BY DEF CodesUsed, CustomerInv, IsActive
<1> QED
  BY <1>1, <1>2, <1>3 DEF RequestsInv

\* A row with columns of a code is one.
LEMMA CodeRows ==
    ASSUME NEW r \in Row
    PROVE  r # NoChallenge /\ r.attempts \in Nat /\ r.consumed \in BOOLEAN
BY RequestsAssumption DEF Row, NoChallenge, Purposes

\* The columns of a row, and what using it up changes.
LEMMA UsedUp ==
    ASSUME NEW r \in Row
    PROVE  LET u == [r EXCEPT !.consumed = TRUE]
           IN /\ u \in Row /\ u.consumed
              /\ u.purpose = r.purpose /\ u.delivery = r.delivery /\ u.attempts = r.attempts
              /\ u.expired = r.expired
BY DEF Row

LEMMA CodeValues ==
    ASSUME CodesTyped
    PROVE  /\ \A c \in Challenges : /\ Exists(c) => row[c] \in Row /\ row[c].attempts \in Nat
                                    /\ compared[c] \in Nat /\ sends[c] \in Nat
           /\ \A C : \A c \in Challenges :
                 /\ Consume(C)[c] = IF c \in C /\ Exists(c) THEN [row[c] EXCEPT !.consumed = TRUE]
                                    ELSE row[c]
                 /\ Consume(C)[c] \in Row \union {NoChallenge}
           /\ \A C : Consume(C) \in [Challenges -> Row \union {NoChallenge}]
           /\ \A c : IsFiniteSet(Comparing(c)) /\ Cardinality(Comparing(c)) \in Nat
<1>1. \A c \in Challenges : Exists(c) => row[c] \in Row
  BY DEF CodesTyped, Exists
<1>2. \A C : \A c \in Challenges :
         /\ Consume(C)[c] = IF c \in C /\ Exists(c) THEN [row[c] EXCEPT !.consumed = TRUE]
                            ELSE row[c]
         /\ Consume(C)[c] \in Row \union {NoChallenge}
  BY <1>1, UsedUp DEF CodesTyped, Consume
<1>3. \A C : Consume(C) \in [Challenges -> Row \union {NoChallenge}]
  BY <1>2 DEF Consume
<1>4. \A c : IsFiniteSet(Comparing(c)) /\ Cardinality(Comparing(c)) \in Nat
  <2> TAKE c
  <2>1. Comparing(c) \subseteq Checks
    BY DEF Comparing
  <2> QED
    BY <2>1, FS_Subset, FS_CardinalityType, RequestsAssumption
<1> QED
  BY <1>1, <1>2, <1>3, <1>4, CodeRows DEF CodesTyped

\* A code that is not used up otherwise is as it was, where others are used up.
LEMMA UsingUp ==
    ASSUME CodesTyped, NEW e \in Challenges, NEW C, row'[e] = Consume(C)[e]
    PROVE  KeptOrUsed(e) /\ (e \in C /\ Exists(e) => row'[e].consumed)
<1>1. row'[e] = IF e \in C /\ Exists(e) THEN [row[e] EXCEPT !.consumed = TRUE] ELSE row[e]
  BY CodeValues
<1> QED
  BY <1>1, CodeValues, UsedUp, CodeRows DEF KeptOrUsed, Exists

LEMMA CountsKept ==
    ASSUME RequestsInv, NEW e \in Challenges, KeptOrUsed(e), Comparing(e)' = Comparing(e),
           compared'[e] = compared[e], sends'[e] = sends[e], sending'[e] = sending[e]
    PROVE  Counted(e)'
BY DEF RequestsInv, CodesCounted, Counted, KeptOrUsed

\* A new code that is not usable yet.
LEMMA NewCode ==
    ASSUME CodesTyped, NEW purpose \in Purposes, NEW channel \in {"EMAIL", "PHONE"},
           NEW delivery \in {"INTAKE_READY", "PENDING"}, NEW access \in Devices \union {Nobody}
    PROVE  LET n == Created(purpose, channel, delivery, access)
           IN /\ n \in Row /\ n.purpose = purpose /\ n.delivery = delivery
              /\ n.attempts = 0 /\ n.consumed = FALSE
BY RequestsAssumption DEF Created, Row, CodesTyped

LEMMA ChallengeKeeps ==
    ASSUME RequestsInv, NEW c \in Challenges, Challenge(c)
    PROVE  RequestsInv'
<1> USE DEF RequestsInv
<1>1. PICK n : /\ row' = [row EXCEPT ![c] = n]
               /\ n \in Row /\ n.delivery = "PENDING" /\ n.attempts = 0
  <2>1. PICK channel \in {"EMAIL", "PHONE"} :
           \/ row' = [row EXCEPT ![c] = Created("ENROLL_DELETE", channel, "PENDING", Nobody)]
           \/ \E d \in Devices :
                 row' = [row EXCEPT ![c] = Created("DELETE", channel, "PENDING", d)]
    BY DEF Challenge
  <2>2. ASSUME NEW purpose \in Purposes, NEW access \in Devices \union {Nobody},
               row' = [row EXCEPT ![c] = Created(purpose, channel, "PENDING", access)]
        PROVE  \E n : /\ row' = [row EXCEPT ![c] = n]
                      /\ n \in Row /\ n.delivery = "PENDING" /\ n.attempts = 0
    <3> DEFINE n == Created(purpose, channel, "PENDING", access)
    <3>1. n \in Row /\ n.delivery = "PENDING" /\ n.attempts = 0
      BY <2>1, RequestsAssumption DEF Created, Row, CodesTyped
    <3> QED
      BY <2>2, <3>1
  <2>3. "ENROLL_DELETE" \in Purposes /\ "DELETE" \in Purposes
    BY DEF Purposes
  <2> QED
    BY <2>1, <2>2, <2>3
<1>2. /\ account /\ ~Exists(c)
      /\ born' = born + 1
      /\ sending' = [sending EXCEPT ![c] = "calling"]
      /\ sends' = [sends EXCEPT ![c] = @ + 1]
      /\ UNCHANGED <<account, phoneCode, check, compared, credential, status, holder>>
  BY DEF Challenge
<1>3. CodesTyped'
  BY <1>1, <1>2 DEF CodesTyped
<1>4. /\ row'[c] = n /\ Exists(c)'
      /\ \A e \in Challenges : e # c => row'[e] = row[e] /\ sends'[e] = sends[e]
      /\ sends'[c] = 1
  BY <1>1, <1>2, CodeRows DEF CodesTyped, CodesCounted, Counted, Exists
<1>5. CodesCounted'
  <2> SUFFICES ASSUME NEW e \in Challenges
               PROVE  Counted(e)'
    BY DEF CodesCounted
  <2>1. Comparing(e)' = Comparing(e)
    BY <1>2 DEF Comparing
  <2>2. CASE e = c
    <3>1. compared[c] = 0 /\ Comparing(c) = {}
      BY <1>2 DEF CodesCounted, Counted
    <3>2. compared[c] + Cardinality(Comparing(c)) = 0
      BY <3>1, FS_EmptySet
    <3> QED
      BY <1>1, <1>2, <1>4, <2>1, <2>2, <3>1, <3>2 DEF Counted
  <2>3. CASE e # c
    BY <1>2, <1>4, <2>1, <2>3 DEF CodesCounted, Counted, CodesTyped, Exists
  <2> QED
    BY <2>2, <2>3
<1>6. OneUsableCode'
  BY <1>1, <1>4 DEF OneUsableCode, Usable, Open, Exists
<1>7. CodesUsed' /\ CustomerInv'
  BY <1>2 DEF CodesUsed, CustomerInv, IsActive
<1> QED
  BY <1>3, <1>5, <1>6, <1>7

\* An intake's grant, which supersedes the others.
LEMMA IssueIntakeKeeps ==
    ASSUME RequestsInv, NEW c \in Challenges, IssueIntake(c)
    PROVE  RequestsInv'
<1> USE DEF RequestsInv
<1> DEFINE old == {e \in Challenges : Exists(e) /\ row[e].purpose = "INTAKE"}
           n == Created("INTAKE", "EMAIL", "INTAKE_READY", Nobody)
<1>1. /\ account /\ ~Exists(c)
      /\ row' = [Consume(old) EXCEPT ![c] = n]
      /\ born' = born + 1
      /\ UNCHANGED <<account, sending, phoneCode, check, compared, sends, credential, status,
                     holder>>
  BY DEF IssueIntake
<1>2. n \in Row /\ n.delivery = "INTAKE_READY" /\ n.attempts = 0 /\ n.purpose = "INTAKE"
  BY NewCode DEF Purposes
<1> HIDE DEF n
<1>3. CodesTyped'
  BY <1>1, <1>2, CodeValues DEF CodesTyped
<1>4. row'[c] = n /\ Exists(c)'
  BY <1>1, <1>2, CodeValues, CodeRows DEF Exists
<1>5. \A e \in Challenges : e # c => KeptOrUsed(e)
  BY <1>1, CodeValues, UsingUp
<1>6. CodesCounted'
  <2> SUFFICES ASSUME NEW e \in Challenges
               PROVE  Counted(e)'
    BY DEF CodesCounted
  <2>1. Comparing(e)' = Comparing(e)
    BY <1>1 DEF Comparing
  <2>2. CASE e = c
    <3>1. compared[c] = 0 /\ sends[c] = 0 /\ Comparing(c) = {}
      BY <1>1 DEF CodesCounted, Counted
    <3>2. compared[c] + Cardinality(Comparing(c)) = 0
      BY <3>1, FS_EmptySet
    <3> QED
      BY <1>1, <1>2, <1>4, <2>1, <2>2, <3>1, <3>2 DEF Counted
  <2>3. CASE e # c
    BY <1>1, <1>5, <2>1, <2>3, CountsKept
  <2> QED
    BY <2>2, <2>3
<1>7. OneUsableCode'
  BY <1>2, <1>4, <1>5 DEF OneUsableCode, Usable, Open, KeptOrUsed
<1>8. CodesUsed' /\ CustomerInv'
  BY <1>1 DEF CodesUsed, CustomerInv, IsActive
<1> QED
  BY <1>3, <1>6, <1>7, <1>8

LEMMA RedeemKeeps ==
    ASSUME RequestsInv, NEW c \in Challenges, RedeemIntake(c)
    PROVE  RequestsInv'
<1> USE DEF RequestsInv
<1>1. /\ account /\ Exists(c) /\ row[c].purpose = "INTAKE" /\ row[c].delivery = "INTAKE_READY"
      /\ row' = [row EXCEPT ![c].delivery = "PENDING"]
      /\ sending' = [sending EXCEPT ![c] = "calling"]
      /\ sends' = [sends EXCEPT ![c] = @ + 1]
      /\ UNCHANGED <<account, born, phoneCode, check, compared, credential, status, holder>>
  BY DEF RedeemIntake, Open
<1>2. row[c] \in Row /\ sends[c] = 0
  BY <1>1, CodeValues DEF CodesCounted, Counted
<1>3. /\ row'[c] \in Row /\ row'[c].delivery = "PENDING"
      /\ row'[c].purpose = row[c].purpose /\ row'[c].attempts = row[c].attempts
  BY <1>1, <1>2 DEF CodesTyped, Row
<1>4. \A e \in Challenges : e # c => row'[e] = row[e] /\ KeptOrUsed(e)
                                     /\ sends'[e] = sends[e] /\ sending'[e] = sending[e]
  BY <1>1 DEF CodesTyped, KeptOrUsed, Exists
<1>5. CodesTyped'
  <2>1. row' \in [Challenges -> Row \union {NoChallenge}]
    BY <1>1, <1>3, <1>4 DEF CodesTyped
  <2> QED
    BY <1>1, <2>1 DEF CodesTyped
<1>6. Exists(c)'
  BY <1>3, CodeRows DEF Exists
<1>7. CodesCounted'
  <2> SUFFICES ASSUME NEW e \in Challenges
               PROVE  Counted(e)'
    BY DEF CodesCounted
  <2>1. Comparing(e)' = Comparing(e)
    BY <1>1 DEF Comparing
  <2>2. CASE e = c
    BY <1>1, <1>2, <1>3, <1>6, <2>1, <2>2 DEF CodesTyped, CodesCounted, Counted
  <2>3. CASE e # c
    BY <1>1, <1>4, <2>1, <2>3, CountsKept
  <2> QED
    BY <2>2, <2>3
<1>8. OneUsableCode'
  BY <1>3, <1>4 DEF OneUsableCode, Usable, Open, KeptOrUsed
<1>9. CodesUsed' /\ CustomerInv'
  BY <1>1 DEF CodesUsed, CustomerInv, IsActive
<1> QED
  BY <1>5, <1>7, <1>8, <1>9

LEMMA AnswerKeeps ==
    ASSUME RequestsInv, NEW c \in Challenges, ProviderAnswers(c)
    PROVE  RequestsInv'
<1> USE DEF RequestsInv
<1>1. /\ sending[c] = "calling"
      /\ UNCHANGED <<account, row, born, check, compared, sends, credential, status, holder>>
  BY DEF ProviderAnswers
<1>2. /\ sending' \in [Challenges -> {"no", "calling", "accepted", "over"}]
      /\ \A e \in Challenges : e # c => sending'[e] = sending[e]
  BY DEF ProviderAnswers, CodesTyped
<1>3. Exists(c)
  BY <1>1 DEF CodesCounted, Counted
<1>4. CodesTyped'
  BY <1>1, <1>2 DEF CodesTyped
<1>5. CodesCounted'
  BY <1>1, <1>2, <1>3 DEF CodesCounted, Counted, Exists, Comparing
<1>6. OneUsableCode' /\ CodesUsed' /\ CustomerInv'
  BY <1>1 DEF OneUsableCode, Usable, Open, Exists, CodesUsed, CustomerInv, IsActive
<1> QED
  BY <1>4, <1>5, <1>6

\* Whatever the order the sends end in, the code that becomes usable is the only one.
LEMMA MarkSentKeeps ==
    ASSUME RequestsInv, NEW c \in Challenges, MarkSent(c)
    PROVE  RequestsInv'
<1> USE DEF RequestsInv
<1>1. /\ sending[c] = "accepted"
      /\ sending' = [sending EXCEPT ![c] = "over"]
      /\ UNCHANGED <<account, born, phoneCode, check, compared, sends, credential, status, holder>>
  BY DEF MarkSent
<1>2. Exists(c) /\ row[c] \in Row
  BY <1>1, CodeValues DEF CodesCounted, Counted
<1>3. /\ \A e \in Challenges : e # c => KeptOrUsed(e) /\ row'[e] \in Row \union {NoChallenge}
      /\ row'[c] \in Row /\ row'[c].purpose = row[c].purpose /\ row'[c].attempts = row[c].attempts
      /\ row'[c].consumed = row[c].consumed
      /\ row'[c].delivery \in {row[c].delivery, "SENT"}
      /\ DOMAIN row' = Challenges /\ row' = [e \in Challenges |-> row'[e]]
      /\ \/ row[c].purpose = "INTAKE"
         \/ row' = row
         \/ \A e \in Challenges : e # c /\ Exists(e) => row'[e].consumed
  <2>1. CASE row' = row
    BY <1>2, <2>1 DEF KeptOrUsed, Exists, CodesTyped
  <2>2. CASE row[c].purpose = "INTAKE" /\ row' = [row EXCEPT ![c].delivery = "SENT"]
    BY <1>2, <2>2 DEF KeptOrUsed, Exists, CodesTyped, Row
  <2>3. CASE row' = [Consume(Challenges \ {c}) EXCEPT ![c].delivery = "SENT"]
    <3>1. Consume(Challenges \ {c})[c] = row[c]
      BY CodeValues
    <3>2. \A e \in Challenges : e # c => row'[e] = Consume(Challenges \ {c})[e]
      BY <2>3, CodeValues
    <3>3. \A e \in Challenges : e # c => KeptOrUsed(e) /\ row'[e] \in Row \union {NoChallenge}
                                         /\ (Exists(e) => row'[e].consumed)
      BY <3>2, UsingUp, CodeValues
    <3>4. /\ DOMAIN row' = Challenges /\ row' = [e \in Challenges |-> row'[e]]
          /\ row'[c] = [row[c] EXCEPT !.delivery = "SENT"]
      BY <2>3, <3>1, CodeValues
    <3> QED
      BY <1>2, <3>3, <3>4 DEF Row
  <2> QED
    BY <2>1, <2>2, <2>3 DEF MarkSent
<1>4. Exists(c)'
  BY <1>3, CodeRows DEF Exists
<1>5. CodesTyped'
  <2>1. row' \in [Challenges -> Row \union {NoChallenge}]
    BY <1>3
  <2> QED
    BY <1>1, <2>1 DEF CodesTyped
<1>6. CodesCounted'
  <2> SUFFICES ASSUME NEW e \in Challenges
               PROVE  Counted(e)'
    BY DEF CodesCounted
  <2>1. Comparing(e)' = Comparing(e)
    BY <1>1 DEF Comparing
  <2>2. CASE e = c
    BY <1>1, <1>2, <1>3, <1>4, <2>1, <2>2 DEF CodesCounted, Counted
  <2>3. CASE e # c
    <3>1. sending'[e] = sending[e]
      BY <1>1, <2>3 DEF CodesTyped
    <3> QED
      BY <1>1, <1>3, <2>1, <2>3, <3>1, CountsKept
  <2> QED
    BY <2>2, <2>3
<1>7. OneUsableCode'
  BY <1>2, <1>3, <1>4 DEF OneUsableCode, Usable, Open, KeptOrUsed, Exists
<1>8. CodesUsed'
  BY <1>1, <1>2, <1>3 DEF CodesUsed, KeptOrUsed
<1>9. CustomerInv'
  BY <1>1 DEF CustomerInv, IsActive
<1> QED
  BY <1>5, <1>6, <1>7, <1>8, <1>9

LEMMA ExpireKeeps ==
    ASSUME RequestsInv, NEW c \in Challenges, Expire(c)
    PROVE  RequestsInv'
<1> USE DEF RequestsInv
<1>1. /\ Exists(c) /\ row' = [row EXCEPT ![c].expired = TRUE]
      /\ UNCHANGED <<account, born, sending, phoneCode, check, compared, sends, credential, status,
                     holder>>
  BY DEF Expire, Open
<1>2. row[c] \in Row
  BY <1>1, CodeValues
<1>3. /\ row'[c] \in Row /\ row'[c].purpose = row[c].purpose /\ row'[c].expired
      /\ row'[c].delivery = row[c].delivery /\ row'[c].attempts = row[c].attempts
      /\ row'[c].consumed = row[c].consumed
  BY <1>1, <1>2 DEF CodesTyped, Row
<1>4. Exists(c)' /\ \A e \in Challenges : e # c => row'[e] = row[e]
  BY <1>1, <1>3, CodeRows DEF CodesTyped, Exists
<1>5. CodesTyped'
  <2>1. row' \in [Challenges -> Row \union {NoChallenge}]
    BY <1>1, <1>3, <1>4 DEF CodesTyped
  <2> QED
    BY <1>1, <2>1 DEF CodesTyped
<1>6. CodesCounted'
  <2> SUFFICES ASSUME NEW e \in Challenges
               PROVE  Counted(e)'
    BY DEF CodesCounted
  <2>1. Comparing(e)' = Comparing(e)
    BY <1>1 DEF Comparing
  <2> QED
    BY <1>1, <1>3, <1>4, <2>1 DEF CodesCounted, Counted, Exists
<1>7. OneUsableCode' /\ CodesUsed'
  BY <1>1, <1>3, <1>4 DEF OneUsableCode, Usable, Open, CodesUsed, Exists
<1>8. CustomerInv'
  BY <1>1 DEF CustomerInv, IsActive
<1> QED
  BY <1>5, <1>6, <1>7, <1>8

\* An attempt is counted when a comparison begins.
LEMMA VerifyBeginKeeps ==
    ASSUME RequestsInv, NEW v \in Checks, NEW c \in Challenges, NEW d \in Devices,
           VerifyBegin(v, c, d)
    PROVE  RequestsInv'
<1> USE DEF RequestsInv
<1>1. /\ check[v] = IdleCheck /\ Exists(c) /\ row[c].attempts < MaxAttempts
      /\ row' = [row EXCEPT ![c].attempts = @ + 1]
      /\ \/ check' = check
         \/ check' = [check EXCEPT ![v] = [pc |-> "comparing", challenge |-> c, device |-> d]]
      /\ UNCHANGED <<account, born, sending, phoneCode, compared, sends, credential, status,
                     holder>>
  BY DEF VerifyBegin, Usable, Open
<1>2. row[c] \in Row /\ row[c].attempts \in Nat
  BY <1>1, CodeValues
<1>3. row[c].attempts + 1 \in 0 .. MaxAttempts
  BY <1>1, <1>2, RequestsAssumption
<1>4. /\ row'[c] \in Row /\ row'[c].purpose = row[c].purpose
      /\ row'[c].delivery = row[c].delivery /\ row'[c].attempts = row[c].attempts + 1
      /\ row'[c].consumed = row[c].consumed /\ row'[c].expired = row[c].expired
  BY <1>1, <1>2, <1>3 DEF CodesTyped, Row
<1>5. Exists(c)' /\ \A e \in Challenges : e # c => row'[e] = row[e] /\ KeptOrUsed(e)
  BY <1>1, <1>4, CodeRows DEF CodesTyped, Exists, KeptOrUsed
<1>6. CodesTyped'
  <2>1. row' \in [Challenges -> Row \union {NoChallenge}]
    BY <1>1, <1>4, <1>5 DEF CodesTyped
  <2>2. check' \in [Checks -> Check \union {IdleCheck}]
    BY <1>1 DEF CodesTyped, Check
  <2> QED
    BY <1>1, <2>1, <2>2 DEF CodesTyped
<1>7. CodesCounted'
  <2> SUFFICES ASSUME NEW e \in Challenges
               PROVE  Counted(e)'
    BY DEF CodesCounted
  <2>1. Comparing(e)' = Comparing(e) \/ (e = c /\ Comparing(e)' = Comparing(e) \cup {v})
    <3>1. ASSUME check' = check
          PROVE  Comparing(e)' = Comparing(e)
      BY <3>1 DEF Comparing
    <3>2. CASE check' = [check EXCEPT ![v] = [pc |-> "comparing", challenge |-> c, device |-> d]]
      <4>1. /\ check'[v].pc = "comparing" /\ check'[v].challenge = c
            /\ \A w \in Checks : w # v => check'[w] = check[w]
        BY <3>2 DEF CodesTyped
      <4>2. check[v].pc # "comparing"
        BY <1>1 DEF IdleCheck
      <4>3. \A w \in Checks : w \in Comparing(e)' <=> w \in Comparing(e) \/ (w = v /\ e = c)
        BY <4>1, <4>2 DEF Comparing
      <4>4. Comparing(e)' \subseteq Checks /\ Comparing(e) \subseteq Checks
        BY DEF Comparing
      <4>5. ASSUME e # c
            PROVE  Comparing(e)' = Comparing(e)
        <5> DEFINE m == Comparing(e)'
                   n == Comparing(e)
        <5>1. m \subseteq Checks /\ n \subseteq Checks /\ \A w \in Checks : w \in m <=> w \in n
          BY <4>3, <4>4, <4>5
        <5> HIDE DEF m, n
        <5>2. m = n
          BY <5>1
        <5> QED
          BY <5>2 DEF m, n
      <4>6. ASSUME e = c
            PROVE  Comparing(e)' = Comparing(e) \cup {v}
        <5> DEFINE m == Comparing(e)'
                   n == Comparing(e)
        <5>1. m \subseteq Checks /\ n \subseteq Checks
              /\ \A w \in Checks : w \in m <=> w \in n \/ w = v
          BY <4>3, <4>4, <4>6
        <5> HIDE DEF m, n
        <5>2. m = n \cup {v}
          BY <5>1
        <5> QED
          BY <5>2 DEF m, n
      <4> QED
        BY <4>5, <4>6
    <3> QED
      BY <1>1, <3>1, <3>2
  <2>2. CASE e = c
    <3>1. v \notin Comparing(c)
      BY <1>1 DEF Comparing, IdleCheck
    <3>2. Cardinality(Comparing(c) \cup {v}) = Cardinality(Comparing(c)) + 1
      <4>1. IsFiniteSet(Comparing(c))
        BY CodeValues
      <4> QED
        BY <3>1, <4>1, FS_AddElement
    <3>3. Cardinality(Comparing(c)') <= Cardinality(Comparing(c)) + 1
          /\ Cardinality(Comparing(c)') \in Nat
      <4>1. Cardinality(Comparing(c)) \in Nat
        BY CodeValues
      <4>2. CASE Comparing(c)' = Comparing(c)
        BY <4>1, <4>2
      <4>3. CASE Comparing(c)' = Comparing(c) \cup {v}
        BY <3>2, <4>1, <4>3
      <4> QED
        BY <2>1, <2>2, <4>2, <4>3
    <3>4. compared[c] + Cardinality(Comparing(c)) <= row[c].attempts
          /\ compared[c] \in Nat /\ Cardinality(Comparing(c)) \in Nat
      BY <1>1, CodeValues DEF CodesCounted, Counted
    <3>5. compared[c] + Cardinality(Comparing(c)') <= row'[c].attempts
      BY <1>2, <1>4, <3>3, <3>4
    <3> QED
      BY <1>1, <1>4, <1>5, <2>2, <3>5 DEF CodesCounted, Counted
  <2>3. CASE e # c
    BY <1>1, <1>5, <2>1, <2>3, CountsKept
  <2> QED
    BY <2>2, <2>3
<1>8. OneUsableCode' /\ CodesUsed'
  BY <1>1, <1>4, <1>5 DEF OneUsableCode, Usable, Open, CodesUsed, Exists
<1>9. CustomerInv'
  BY <1>1 DEF CustomerInv, IsActive
<1> QED
  BY <1>6, <1>7, <1>8, <1>9

\* A check at work is of a challenge.
LEMMA CheckValues ==
    ASSUME CodesTyped, NEW v \in Checks, check[v].pc \in {"comparing", "approved"}
    PROVE  check[v] \in Check /\ check[v].challenge \in Challenges /\ check[v].device \in Devices
BY DEF CodesTyped, Check, IdleCheck

LEMMA CompareKeeps ==
    ASSUME RequestsInv, NEW v \in Checks, Compare(v)
    PROVE  RequestsInv'
<1> USE DEF RequestsInv
<1>. PICK c : c = check[v].challenge
  OBVIOUS
<1>1. /\ check[v].pc = "comparing" /\ c = check[v].challenge
      /\ compared' = [compared EXCEPT ![c] = @ + 1]
      /\ \/ check' = [check EXCEPT ![v] = IdleCheck]
         \/ check' = [check EXCEPT ![v].pc = "approved"]
      /\ UNCHANGED <<account, row, born, sending, phoneCode, sends, credential, status, holder>>
  BY DEF Compare
<1>2. check[v] \in Check /\ c \in Challenges
  BY <1>1, CheckValues
<1>3. /\ check' \in [Checks -> Check \union {IdleCheck}]
      /\ check'[v].pc # "comparing"
      /\ \A w \in Checks : w # v => check'[w] = check[w]
  <2>1. CASE check' = [check EXCEPT ![v] = IdleCheck]
    BY <2>1 DEF CodesTyped, IdleCheck
  <2>2. CASE check' = [check EXCEPT ![v].pc = "approved"]
    <3>1. [check[v] EXCEPT !.pc = "approved"] \in Check
          /\ [check[v] EXCEPT !.pc = "approved"].pc = "approved"
      BY <1>2 DEF Check
    <3> QED
      BY <2>2, <3>1 DEF CodesTyped
  <2> QED
    BY <1>1, <2>1, <2>2
<1>4. CodesTyped'
  BY <1>1, <1>2, <1>3 DEF CodesTyped
<1>5. CodesCounted'
  <2> SUFFICES ASSUME NEW e \in Challenges
               PROVE  Counted(e)'
    BY DEF CodesCounted
  <2>1. Exists(e)' = Exists(e)
    BY <1>1 DEF Exists
  <2>2. CASE e = c
    <3>1. v \in Comparing(c) /\ Comparing(c)' = Comparing(c) \ {v}
      <4>1. v \in Comparing(c)
        BY <1>1 DEF Comparing
      <4>2. \A w \in Checks : w \in Comparing(c)' <=> w \in Comparing(c) /\ w # v
        BY <1>3 DEF Comparing
      <4>3. Comparing(c)' \subseteq Checks /\ Comparing(c) \subseteq Checks
        BY DEF Comparing
      <4> QED
        BY <4>1, <4>2, <4>3
    <3>2. Cardinality(Comparing(c) \ {v}) = Cardinality(Comparing(c)) - 1
      <4>1. IsFiniteSet(Comparing(c))
        BY CodeValues
      <4> QED
        BY <3>1, <4>1, FS_RemoveElement
    <3>3. Exists(c) /\ compared[c] + Cardinality(Comparing(c)) <= row[c].attempts
          /\ compared[c] \in Nat /\ Cardinality(Comparing(c)) \in Nat /\ row[c].attempts \in Nat
      <4>1. Exists(c)
        BY <1>2, <3>1 DEF CodesCounted, Counted
      <4> QED
        BY <1>2, <4>1, CodeValues DEF CodesCounted, Counted
    <3>4. compared'[c] = compared[c] + 1
      BY <1>1, <1>2 DEF CodesTyped
    <3>5. Comparing(e)' = Comparing(c) \ {v} /\ compared'[e] = compared[c] + 1
      BY <2>2, <3>1, <3>4
    <3>6. Cardinality(Comparing(e)') = Cardinality(Comparing(c)) - 1
      BY <3>2, <3>5
    <3>7. compared'[e] + Cardinality(Comparing(e)') <= row'[e].attempts
      BY <1>1, <2>2, <3>3, <3>5, <3>6
    <3> QED
      BY <1>1, <2>1, <2>2, <3>3, <3>7 DEF CodesCounted, Counted
  <2>3. CASE e # c
    <3>1. Comparing(e)' = Comparing(e) /\ compared'[e] = compared[e]
      BY <1>1, <1>2, <1>3, <2>3 DEF Comparing, CodesTyped
    <3> QED
      BY <1>1, <2>1, <3>1 DEF CodesCounted, Counted
  <2> QED
    BY <2>2, <2>3
<1>6. OneUsableCode' /\ CodesUsed' /\ CustomerInv'
  BY <1>1 DEF OneUsableCode, Usable, Open, Exists, CodesUsed, CustomerInv, IsActive
<1> QED
  BY <1>4, <1>5, <1>6

LEMMA VerifyCommitKeeps ==
    ASSUME RequestsInv, NEW v \in Checks, VerifyCommit(v)
    PROVE  RequestsInv'
<1> USE DEF RequestsInv
<1>. PICK c, d, enrols : /\ c = check[v].challenge /\ d = check[v].device
                        /\ enrols = (row[c].purpose # "INTAKE" /\ row[c].access = Nobody)
  OBVIOUS
<1>1. /\ check[v].pc = "approved" /\ c = check[v].challenge /\ d = check[v].device
      /\ check' = [check EXCEPT ![v] = IdleCheck]
      /\ UNCHANGED <<account, born, sending, phoneCode, compared, sends, status, holder>>
  BY DEF VerifyCommit
<1>2. c \in Challenges /\ d \in Devices
  BY <1>1, CheckValues
<1>3. \A e \in Challenges : Comparing(e)' = Comparing(e)
  BY <1>1 DEF CodesTyped, Comparing, IdleCheck
<1>4. CASE account /\ Open(c)
  <2>1. /\ row' = [row EXCEPT ![c].verified = TRUE, ![c].access = IF enrols THEN d ELSE @]
        /\ credential' = IF enrols THEN Enrolled(d) ELSE credential
    BY <1>4 DEF VerifyCommit
  <2>2. row[c] \in Row /\ Exists(c)
    BY <1>2, <1>4, CodeValues DEF Open
  <2>3. /\ DOMAIN row' = Challenges
        /\ \A e \in Challenges : e # c => row'[e] = row[e]
        /\ row'[c] = [row[c] EXCEPT !.verified = TRUE,
                                    !.access = IF enrols THEN d ELSE row[c].access]
    BY <1>2, <2>1 DEF CodesTyped
  <2>4. /\ row'[c] \in Row /\ row'[c].purpose = row[c].purpose
        /\ row'[c].delivery = row[c].delivery /\ row'[c].attempts = row[c].attempts
        /\ row'[c].consumed = row[c].consumed /\ row'[c].expired = row[c].expired
    <3>1. (IF enrols THEN d ELSE row[c].access) \in Devices \union {Nobody}
      BY <1>2, <2>2 DEF Row
    <3> QED
      BY <2>2, <2>3, <3>1 DEF Row
  <2>5. row' \in [Challenges -> Row \union {NoChallenge}]
    <3>1. row' = [e \in Challenges |-> row'[e]]
      BY <2>1, <2>3 DEF CodesTyped
    <3>2. \A e \in Challenges : row'[e] \in Row \union {NoChallenge}
      BY <2>3, <2>4 DEF CodesTyped
    <3> QED
      BY <3>1, <3>2
  <2>6. Exists(c)' /\ \A e \in Challenges : KeptOrUsed(e) /\ row'[e].consumed = row[e].consumed
    <3>1. Exists(c)'
      BY <2>4, CodeRows DEF Exists
    <3>2. KeptOrUsed(c)
      BY <2>2, <2>4, <3>1 DEF KeptOrUsed
    <3>3. ASSUME NEW e \in Challenges, e # c
          PROVE  KeptOrUsed(e) /\ row'[e].consumed = row[e].consumed
      BY <2>3, <3>3 DEF KeptOrUsed, Exists
    <3> QED
      BY <2>4, <3>1, <3>2, <3>3
  <2>7. CodesTyped'
    BY <1>1, <2>5 DEF CodesTyped
  <2>8. CodesCounted'
    BY <1>1, <1>3, <2>6, CountsKept DEF CodesCounted
  <2>9. OneUsableCode' /\ CodesUsed'
    BY <1>1, <2>6 DEF OneUsableCode, Usable, Open, CodesUsed, KeptOrUsed
  <2>10. CustomerInv'
    <3>1. /\ credential' \in [Devices -> {"none", "usable", "revoked"}]
          /\ \A e, f \in Devices : credential'[e] = "usable" /\ credential'[f] = "usable" => e = f
      BY <1>2, <2>1 DEF CustomerInv, Enrolled
    <3> QED
      BY <1>1, <1>4, <3>1 DEF CustomerInv, IsActive
  <2> QED
    BY <2>7, <2>8, <2>9, <2>10
<1>5. CASE ~(account /\ Open(c))
  <2>1. UNCHANGED <<row, credential>>
    BY <1>5 DEF VerifyCommit
  <2>2. CodesTyped'
    BY <1>1, <2>1 DEF CodesTyped
  <2>3. CodesCounted'
    BY <1>1, <1>3, <2>1 DEF CodesCounted, Counted, Exists
  <2>4. OneUsableCode' /\ CodesUsed' /\ CustomerInv'
    BY <1>1, <2>1 DEF OneUsableCode, Usable, Open, Exists, CodesUsed, CustomerInv, IsActive
  <2> QED
    BY <2>2, <2>3, <2>4
<1> QED
  BY <1>4, <1>5

\* Codes that are only used up.
LEMMA ConsumeKeeps ==
    ASSUME RequestsInv, NEW C, row' = Consume(C),
           UNCHANGED <<born, sending, check, compared, sends>>
    PROVE  /\ CodesTyped' /\ CodesCounted' /\ OneUsableCode'
           /\ \A e \in Challenges : Exists(e)' /\ e \in C => row'[e].consumed
           /\ \A e \in Challenges : KeptOrUsed(e)
<1> USE DEF RequestsInv
<1>1. \A e \in Challenges : KeptOrUsed(e) /\ (e \in C /\ Exists(e) => row'[e].consumed)
  BY UsingUp
<1>2. CodesTyped'
  BY CodeValues DEF CodesTyped
<1>3. CodesCounted'
  <2> SUFFICES ASSUME NEW e \in Challenges
               PROVE  Counted(e)'
    BY DEF CodesCounted
  <2>1. Comparing(e)' = Comparing(e)
    BY DEF Comparing
  <2> QED
    BY <1>1, <2>1, CountsKept
<1>4. OneUsableCode'
  BY <1>1 DEF OneUsableCode, Usable, Open, KeptOrUsed
<1> QED
  BY <1>1, <1>2, <1>3, <1>4 DEF KeptOrUsed

LEMMA SubmitKeeps ==
    ASSUME RequestsInv, NEW r \in Requests, NEW c \in Challenges, NEW d \in Devices,
           SubmitRequest(r, c, d)
    PROVE  RequestsInv'
<1> USE DEF RequestsInv
<1>1. /\ account /\ account' = account
      /\ row' = Consume({c})
      /\ UNCHANGED <<born, sending, phoneCode, check, compared, sends, credential>>
  BY DEF SubmitRequest, Proven
<1>2. CodesTyped' /\ CodesCounted' /\ OneUsableCode'
  BY <1>1, ConsumeKeeps
<1>3. /\ status' \in [Requests -> {"none", "active", "cancelled", "erased"}]
      /\ \A q, s \in Requests : status'[q] = "active" /\ status'[s] = "active" => q = s
  <2>1. CASE \E a \in Requests : IsActive(a)
    BY <2>1 DEF SubmitRequest, CustomerInv, IsActive
  <2>2. CASE ~\E a \in Requests : IsActive(a)
    BY <2>2 DEF SubmitRequest, CustomerInv, IsActive
  <2> QED
    BY <2>1, <2>2
<1>4. CodesUsed' /\ CustomerInv'
  BY <1>1, <1>3 DEF CodesUsed, CustomerInv, IsActive
<1> QED
  BY <1>2, <1>4

LEMMA CancelKeeps ==
    ASSUME RequestsInv, NEW r \in Requests, NEW d \in Devices, Cancel(r, d)
    PROVE  RequestsInv'
<1> USE DEF RequestsInv
<1>1. /\ status' = [status EXCEPT ![r] = "cancelled"]
      /\ UNCHANGED <<account, row, born, sending, phoneCode, check, compared, sends, credential,
                     holder>>
  BY DEF Cancel
<1>2. CodesTyped'
  BY <1>1 DEF CodesTyped
<1>3. CodesCounted'
  BY <1>1 DEF CodesCounted, Counted, Exists, Comparing
<1>4. OneUsableCode' /\ CodesUsed'
  BY <1>1 DEF OneUsableCode, Usable, Open, Exists, CodesUsed
<1>5. CustomerInv'
  BY <1>1 DEF CustomerInv, IsActive
<1> QED
  BY <1>2, <1>3, <1>4, <1>5

LEMMA EraseKeeps ==
    ASSUME RequestsInv, NEW r \in Requests, Erase(r)
    PROVE  RequestsInv'
<1> USE DEF RequestsInv
<1>1. /\ IsActive(r)
      /\ account' = FALSE
      /\ status' = [status EXCEPT ![r] = "erased"]
      /\ row' = Consume(Challenges)
      /\ credential' = [d \in Devices |-> "none"]
      /\ UNCHANGED <<born, sending, phoneCode, check, compared, sends, holder>>
  BY DEF Erase
<1>2. /\ CodesTyped' /\ CodesCounted' /\ OneUsableCode'
      /\ \A e \in Challenges : Exists(e)' /\ e \in Challenges => row'[e].consumed
  BY <1>1, ConsumeKeeps
<1>3. CodesUsed'
  BY <1>2 DEF CodesUsed
<1>4. \A s \in Requests : status'[s] # "active"
  BY <1>1 DEF CustomerInv, IsActive
<1>5. CustomerInv'
  BY <1>1, <1>4 DEF CustomerInv, IsActive
<1> QED
  BY <1>2, <1>3, <1>5

LEMMA RequestsGoOn == RequestsInv /\ [RequestsNext]_requestVars => RequestsInv'
<1> SUFFICES ASSUME RequestsInv, [RequestsNext]_requestVars
             PROVE  RequestsInv'
  OBVIOUS
<1>1. CASE \E c \in Challenges : Challenge(c)
  BY <1>1, ChallengeKeeps
<1>2. CASE \E c \in Challenges : IssueIntake(c)
  BY <1>2, IssueIntakeKeeps
<1>3. CASE \E c \in Challenges : RedeemIntake(c)
  BY <1>3, RedeemKeeps
<1>4. CASE \E c \in Challenges : ProviderAnswers(c)
  BY <1>4, AnswerKeeps
<1>5. CASE \E c \in Challenges : MarkSent(c)
  BY <1>5, MarkSentKeeps
<1>6. CASE \E c \in Challenges : Expire(c)
  BY <1>6, ExpireKeeps
<1>7. CASE \E v \in Checks, c \in Challenges, d \in Devices : VerifyBegin(v, c, d)
  BY <1>7, VerifyBeginKeeps
<1>8. CASE \E v \in Checks : Compare(v)
  BY <1>8, CompareKeeps
<1>9. CASE \E v \in Checks : VerifyCommit(v)
  BY <1>9, VerifyCommitKeeps
<1>10. CASE \E r \in Requests, c \in Challenges, d \in Devices : SubmitRequest(r, c, d)
  BY <1>10, SubmitKeeps
<1>11. CASE \E r \in Requests, d \in Devices : Cancel(r, d)
  BY <1>11, CancelKeeps
<1>12. CASE \E r \in Requests : Erase(r)
  BY <1>12, EraseKeeps
<1>13. CASE UNCHANGED requestVars
  <2> USE <1>13 DEF RequestsInv, requestVars
  <2>1. CodesTyped'
    BY DEF CodesTyped
  <2>2. CodesCounted'
    BY DEF CodesCounted, Counted, Exists, Comparing
  <2>3. OneUsableCode' /\ CodesUsed' /\ CustomerInv'
    BY DEF OneUsableCode, Usable, Open, Exists, CodesUsed, CustomerInv, IsActive
  <2> QED
    BY <2>1, <2>2, <2>3
<1> QED
  BY <1>1, <1>2, <1>3, <1>4, <1>5, <1>6, <1>7, <1>8, <1>9, <1>10, <1>11, <1>12, <1>13
     DEF RequestsNext

\* What the invariant says of the codes, the credentials and an erased customer.
LEMMA IdentityFromInv == RequestsInv => IdentitySound
<1> SUFFICES ASSUME RequestsInv
             PROVE  IdentitySound
  OBVIOUS
<1> USE DEF RequestsInv
<1>1. CodesLimited
  <2> SUFFICES ASSUME NEW c \in Challenges
               PROVE  compared[c] <= MaxAttempts /\ sends[c] <= 1
    BY DEF CodesLimited
  <2>1. Counted(c)
    BY DEF CodesCounted
  <2>2. CASE Exists(c)
    <3>1. row[c] \in Row /\ Cardinality(Comparing(c)) \in Nat /\ compared[c] \in Nat
      BY <2>2, CodeValues
    <3>2. row[c].attempts \in 0 .. MaxAttempts
      BY <3>1 DEF Row
    <3>3. compared[c] + Cardinality(Comparing(c)) <= row[c].attempts
      BY <2>1, <2>2 DEF Counted
    <3>4. MaxAttempts \in Nat
      BY RequestsAssumption
    <3>5. compared[c] <= MaxAttempts
      <4> DEFINE n == Cardinality(Comparing(c))
                 a == row[c].attempts
      <4>1. n \in Nat /\ a \in 0 .. MaxAttempts /\ compared[c] \in Nat /\ compared[c] + n <= a
        BY <3>1, <3>2, <3>3
      <4> HIDE DEF n, a
      <4> QED
        BY <3>4, <4>1
    <3> QED
      BY <2>1, <3>5 DEF Counted
  <2>3. CASE ~Exists(c)
    BY <2>1, <2>3, RequestsAssumption DEF Counted
  <2> QED
    BY <2>2, <2>3
<1>2. OneCredential
  <2> DEFINE held == {d \in Devices : credential[d] = "usable"}
  <2>1. CASE held = {}
    BY <2>1, FS_EmptySet DEF OneCredential
  <2>2. CASE held # {}
    <3>1. PICK d : held = {d}
      BY <2>2 DEF CustomerInv
    <3>2. Cardinality(held) = 1
      BY <3>1, FS_Singleton
    <3> QED
      BY <3>2 DEF OneCredential
  <2> QED
    BY <2>1, <2>2
<1>3. NothingOutlivesErasure
  BY DEF NothingOutlivesErasure, CodesUsed, CustomerInv, Usable, Open
<1> QED
  BY <1>1, <1>2, <1>3 DEF IdentitySound

LEMMA RequestTypesKept ==
    ASSUME RequestsInv', RequestsTypeOK, [RequestsNext]_requestVars
    PROVE  RequestsTypeOK'
<1>1. /\ row' \in [Challenges -> Row \union {NoChallenge}] /\ born' \in Nat
      /\ sending' \in [Challenges -> {"no", "calling", "accepted", "over"}]
      /\ check' \in [Checks -> Check \union {IdleCheck}]
      /\ compared' \in [Challenges -> Nat] /\ sends' \in [Challenges -> Nat]
      /\ credential' \in [Devices -> {"none", "usable", "revoked"}]
      /\ status' \in [Requests -> {"none", "active", "cancelled", "erased"}]
  BY DEF RequestsInv, CodesTyped, CustomerInv
<1>2. account' = account \/ account' = FALSE
  BY DEF RequestsNext, requestVars, Challenge, IssueIntake, RedeemIntake, ProviderAnswers, MarkSent,
         Expire, VerifyBegin, Compare, VerifyCommit, SubmitRequest, Cancel, Erase
<1>3. phoneCode' = phoneCode \/ phoneCode' \in Challenges
  BY DEF RequestsNext, requestVars, Challenge, IssueIntake, RedeemIntake, ProviderAnswers, MarkSent,
         Expire, VerifyBegin, Compare, VerifyCommit, SubmitRequest, Cancel, Erase
<1>4. holder' \in [Requests -> Devices \union {Nobody}]
  <2>1. CASE holder' = holder
    BY <2>1 DEF RequestsTypeOK
  <2>2. CASE \E r \in Requests, c \in Challenges, d \in Devices : SubmitRequest(r, c, d)
    BY <2>2 DEF SubmitRequest, RequestsTypeOK
  <2> QED
    BY <2>1, <2>2 DEF RequestsNext, requestVars, Challenge, IssueIntake, RedeemIntake,
       ProviderAnswers, MarkSent, Expire, VerifyBegin, Compare, VerifyCommit, Cancel, Erase
<1>5. account' \in BOOLEAN
  BY <1>2 DEF RequestsTypeOK
<1> QED
  BY <1>1, <1>3, <1>4, <1>5 DEF RequestsTypeOK

\* The types of the codes, the credentials and the requests (privacyDeletion.service.ts:366-680).
THEOREM RequestsTypes == RequestsSpec => []RequestsTypeOK
<1>1. RequestsSpec => []RequestsInv
  BY RequestsBegin, RequestsGoOn, PTL DEF RequestsSpec
<1>2. RequestsInit => RequestsTypeOK
  BY DEF RequestsInit, RequestsTypeOK
<1> QED
  BY <1>1, <1>2, RequestTypesKept, PTL DEF RequestsSpec

\* However the sends, the verifications, the enrolments and an erasure overlap, a code is sent
\* once and compared a bounded number of times, one code and one credential at most are usable,
\* and none of them is after the erasure (privacyDeletion.service.ts:279-301, 391-404, 428-476).
THEOREM IdentityIsSound == RequestsSpec => []IdentitySound
<1>1. RequestsSpec => []RequestsInv
  BY RequestsBegin, RequestsGoOn, PTL DEF RequestsSpec
<1> QED
  BY <1>1, IdentityFromInv, PTL

=============================================================================
