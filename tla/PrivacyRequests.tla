-------------------------- MODULE PrivacyRequests --------------------------
(***************************************************************************)
(* How one customer gets a deletion request accepted: one-time codes       *)
(* (PrivacyChallenge), the credentials they enrol                          *)
(* (PrivacyAccessCredential), and the request they submit                  *)
(* (services/privacyDeletion.service.ts, privacyIntakeGrant.ts,            *)
(* privacyDelivery.service.ts).                                            *)
(*                                                                         *)
(* Every database transaction takes the privacy lock and is one step here. *)
(* The sending of a code and its checking happen between two transactions, *)
(* so a challenge is read, something else happens, and the challenge is    *)
(* read again.  A request's journal is PrivacyJournal's; here a decision   *)
(* is one step.                                                            *)
(***************************************************************************)
EXTENDS Integers, FiniteSets

CONSTANTS
    Challenges,     \* ids of one-time codes
    Devices,        \* the customer's installations: each has one access token
    Requests,       \* ids of deletion requests
    Checks,         \* verify() calls that may be in flight together
    MaxAttempts     \* 5: codes compared per challenge

\* A process serves finitely many calls at a time.
ASSUME RequestsAssumption == MaxAttempts \in Nat \ {0} /\ IsFiniteSet(Checks)

Nobody == "nobody"
NoRow == "none"

Purposes == {"ENROLL_DELETE", "DELETE", "INTAKE"}
NoChallenge == [purpose |-> "none"]

VARIABLES
    account,    \* the customer's row is there
    row,        \* PrivacyChallenge by id
    born,       \* the challenges created so far: a later one has a higher number
    sending,    \* what the call that sends a challenge's code has done
    phoneCode,  \* the challenge whose code Twilio holds active for the phone
    check,      \* the verify() calls in flight
    compared,   \* how often a code was compared with each challenge's
    sends,      \* how often each challenge's code was handed to the provider
    credential, \* PrivacyAccessCredential by device
    status,     \* PrivacyDeletionRequest by id
    holder      \* whose token reads and cancels each request

requestVars == <<account, row, born, sending, phoneCode, check, compared, sends,
          credential, status, holder>>

Row == [purpose : Purposes, channel : {"EMAIL", "PHONE"},
        delivery : {"INTAKE_READY", "PENDING", "SENT"}, attempts : 0 .. MaxAttempts,
        verified : BOOLEAN, consumed : BOOLEAN, expired : BOOLEAN,
        access : Devices \union {Nobody}, born : Nat]
IdleCheck == [pc |-> "idle"]
Check == [pc : {"comparing", "approved"}, challenge : Challenges, device : Devices]

RequestsTypeOK ==
    /\ account \in BOOLEAN
    /\ row \in [Challenges -> Row \union {NoChallenge}]
    /\ born \in Nat
    /\ sending \in [Challenges -> {"no", "calling", "accepted", "over"}]
    /\ phoneCode \in Challenges \union {NoRow}
    /\ check \in [Checks -> Check \union {IdleCheck}]
    /\ compared \in [Challenges -> Nat]
    /\ sends \in [Challenges -> Nat]
    /\ credential \in [Devices -> {"none", "usable", "revoked"}]
    /\ status \in [Requests -> {"none", "active", "cancelled", "erased"}]
    /\ holder \in [Requests -> Devices \union {Nobody}]

RequestsInit ==
    /\ account = TRUE
    /\ row = [c \in Challenges |-> NoChallenge]
    /\ born = 0
    /\ sending = [c \in Challenges |-> "no"]
    /\ phoneCode = NoRow
    /\ check = [v \in Checks |-> IdleCheck]
    /\ compared = [c \in Challenges |-> 0]
    /\ sends = [c \in Challenges |-> 0]
    /\ credential = [d \in Devices |-> "none"]
    /\ status = [r \in Requests |-> "none"]
    /\ holder = [r \in Requests |-> Nobody]

-----------------------------------------------------------------------------
Exists(c) == row[c] # NoChallenge
\* A challenge the next transaction still accepts.
Open(c) == Exists(c) /\ ~row[c].consumed /\ ~row[c].expired
Usable(c) == Open(c) /\ row[c].delivery = "SENT"
IsActive(r) == status[r] = "active"

Consume(C) == [c \in Challenges |->
                  IF c \in C /\ Exists(c) THEN [row[c] EXCEPT !.consumed = TRUE] ELSE row[c]]

Created(purpose, channel, delivery, access) ==
    [purpose |-> purpose, channel |-> channel, delivery |-> delivery, attempts |-> 0,
     verified |-> FALSE, consumed |-> FALSE, expired |-> FALSE, access |-> access,
     born |-> born + 1]

\* challenge()'s first transaction: a tracking or loyalty credential asks to
\* enrol, an access token to delete.
Challenge(c) ==
    /\ account
    /\ ~Exists(c)
    /\ \E channel \in {"EMAIL", "PHONE"} :
          \/ row' = [row EXCEPT ![c] = Created("ENROLL_DELETE", channel, "PENDING", Nobody)]
          \/ \E d \in Devices :
                /\ credential[d] = "usable"
                /\ row' = [row EXCEPT ![c] = Created("DELETE", channel, "PENDING", d)]
    /\ born' = born + 1
    /\ sending' = [sending EXCEPT ![c] = "calling"]
    /\ sends' = [sends EXCEPT ![c] = @ + 1]
    /\ UNCHANGED <<account, phoneCode, check, compared, credential, status, holder>>

\* An administrator issues a one-use recovery grant; it supersedes the others.
IssueIntake(c) ==
    /\ account
    /\ ~Exists(c)
    /\ row' = [Consume({e \in Challenges : Exists(e) /\ row[e].purpose = "INTAKE"})
                  EXCEPT ![c] = Created("INTAKE", "EMAIL", "INTAKE_READY", Nobody)]
    /\ born' = born + 1
    /\ UNCHANGED <<account, sending, phoneCode, check, compared, sends, credential,
                   status, holder>>

\* redeemIntake(): the reservation commits before the only external call.  Its
\* code lives ten minutes, and a grant that was not expired is not expired.
RedeemIntake(c) ==
    /\ account
    /\ Open(c)
    /\ row[c].purpose = "INTAKE"
    /\ row[c].delivery = "INTAKE_READY"
    /\ row' = [row EXCEPT ![c].delivery = "PENDING"]
    /\ sending' = [sending EXCEPT ![c] = "calling"]
    /\ sends' = [sends EXCEPT ![c] = @ + 1]
    /\ UNCHANGED <<account, born, phoneCode, check, compared, credential, status, holder>>

\* The provider's answer.  A call that failed may have replaced the phone's
\* active code all the same.
ProviderAnswers(c) ==
    /\ sending[c] = "calling"
    /\ \/ /\ sending' = [sending EXCEPT ![c] = "accepted"]
          /\ phoneCode' = IF row[c].channel = "PHONE" THEN c ELSE phoneCode
       \/ /\ sending' = [sending EXCEPT ![c] = "over"]
          /\ phoneCode' \in {phoneCode} \union (IF row[c].channel = "PHONE" THEN {c} ELSE {})
    /\ UNCHANGED <<account, row, born, check, compared, sends, credential, status, holder>>

\* Mutant: a resend only checks that its own challenge is still pending, so two
\* codes that were sent at once are both usable.
MarkSent_KeepsOthers(c) ==
    /\ sending[c] = "accepted"
    /\ sending' = [sending EXCEPT ![c] = "over"]
    /\ row' = IF row[c].consumed THEN row ELSE [row EXCEPT ![c].delivery = "SENT"]
    /\ UNCHANGED <<account, born, phoneCode, check, compared, sends, credential, status,
                   holder>>

\* The second transaction.  A challenge that is still there makes every other
\* one of the customer unusable; an intake's code only becomes usable.  A refusal
\* leaves the row as it is.
MarkSent(c) ==
    /\ sending[c] = "accepted"
    /\ sending' = [sending EXCEPT ![c] = "over"]
    /\ row' = IF row[c].purpose = "INTAKE"
              THEN IF account /\ Open(c) THEN [row EXCEPT ![c].delivery = "SENT"] ELSE row
              ELSE IF row[c].consumed THEN row
                   ELSE [Consume(Challenges \ {c}) EXCEPT ![c].delivery = "SENT"]
    /\ UNCHANGED <<account, born, phoneCode, check, compared, sends, credential, status,
                   holder>>

Expire(c) ==
    /\ Open(c)
    /\ row' = [row EXCEPT ![c].expired = TRUE]
    /\ UNCHANGED <<account, born, sending, phoneCode, check, compared, sends, credential,
                   status, holder>>

-----------------------------------------------------------------------------
\* What a DELETE challenge asks of the token the caller shows.
TokenFits(c, d) == row[c].purpose = "DELETE" => row[c].access = d /\ credential[d] = "usable"

\* Mutant: the attempts are read here but counted once the code was compared.
VerifyBegin_CountsLater(v, c, d) ==
    /\ check[v] = IdleCheck
    /\ Usable(c)
    /\ row[c].attempts < MaxAttempts
    /\ account /\ TokenFits(c, d)
    /\ check' = [check EXCEPT ![v] = [pc |-> "comparing", challenge |-> c, device |-> d]]
    /\ UNCHANGED <<account, row, born, sending, phoneCode, compared, sends, credential,
                   status, holder>>

\* verify()'s first transaction: the attempt is counted even when the token
\* does not fit, and only then is the code compared.  An intake needs no token.
VerifyBegin(v, c, d) ==
    /\ check[v] = IdleCheck
    /\ Usable(c)
    /\ row[c].attempts < MaxAttempts
    /\ row[c].purpose = "INTAKE" => account
    /\ row' = [row EXCEPT ![c].attempts = @ + 1]
    /\ check' = IF account /\ TokenFits(c, d)
                THEN [check EXCEPT ![v] = [pc |-> "comparing", challenge |-> c, device |-> d]]
                ELSE check
    /\ UNCHANGED <<account, born, sending, phoneCode, compared, sends, credential,
                   status, holder>>

\* The comparison: an email's code with the challenge's own hash, a phone's by
\* Twilio with whatever code is active for that phone.
Compare(v) ==
    /\ check[v].pc = "comparing"
    /\ LET c == check[v].challenge IN
          /\ compared' = [compared EXCEPT ![c] = @ + 1]
          /\ \/ check' = [check EXCEPT ![v] = IdleCheck]
             \/ /\ row[c].channel = "PHONE" => phoneCode # NoRow
                /\ check' = [check EXCEPT ![v].pc = "approved"]
    /\ UNCHANGED <<account, row, born, sending, phoneCode, sends, credential, status, holder>>

\* The one device whose credential an enrolment leaves usable.
Enrolled(d) == [e \in Devices |->
                   IF e = d THEN "usable"
                   ELSE IF credential[e] = "usable" THEN "revoked" ELSE credential[e]]

\* Mutant: the second transaction trusts what the first one read.
VerifyCommit_Trusting(v) ==
    /\ check[v].pc = "approved"
    /\ check' = [check EXCEPT ![v] = IdleCheck]
    /\ LET c == check[v].challenge
           d == check[v].device IN
          /\ row' = [row EXCEPT ![c].verified = TRUE, ![c].access = d]
          /\ credential' = IF row[c].access = Nobody /\ row[c].purpose # "INTAKE"
                           THEN Enrolled(d) ELSE credential
    /\ UNCHANGED <<account, born, sending, phoneCode, compared, sends, status, holder>>

\* Mutant: enrolling a device leaves the customer's other credentials usable.
VerifyCommit_KeepsCredentials(v) ==
    /\ check[v].pc = "approved"
    /\ check' = [check EXCEPT ![v] = IdleCheck]
    /\ LET c == check[v].challenge
           d == check[v].device IN
          IF account /\ Open(c) /\ row[c].purpose # "INTAKE" /\ row[c].access = Nobody
          THEN /\ row' = [row EXCEPT ![c].verified = TRUE, ![c].access = d]
               /\ credential' = [credential EXCEPT ![d] = "usable"]
          ELSE UNCHANGED <<row, credential>>
    /\ UNCHANGED <<account, born, sending, phoneCode, compared, sends, status, holder>>

\* verify()'s second transaction reads the challenge and the customer again.  A
\* first verification enrols the device and revokes the other credentials.
VerifyCommit(v) ==
    /\ check[v].pc = "approved"
    /\ check' = [check EXCEPT ![v] = IdleCheck]
    /\ LET c == check[v].challenge
           d == check[v].device
           enrols == row[c].purpose # "INTAKE" /\ row[c].access = Nobody IN
          IF account /\ Open(c)
          THEN /\ row' = [row EXCEPT ![c].verified = TRUE,
                                     ![c].access = IF enrols THEN d ELSE @]
               /\ credential' = IF enrols THEN Enrolled(d) ELSE credential
          ELSE UNCHANGED <<row, credential>>
    /\ UNCHANGED <<account, born, sending, phoneCode, compared, sends, status, holder>>

-----------------------------------------------------------------------------
\* What submit() asks of the challenge and of the device that shows it.
Proven(c, d) ==
    /\ account
    /\ Usable(c)
    /\ row[c].verified
    /\ row[c].purpose # "INTAKE" => row[c].access = d /\ credential[d] = "usable"

\* submit(): a known id or the active request's own token changes nothing;
\* otherwise the challenge is used up, by a new request or by the token of the
\* active one passing to this device.
SubmitRequest(r, c, d) ==
    /\ status[r] = "none"
    /\ \A a \in Requests : IsActive(a) => holder[a] # d
    /\ Proven(c, d)
    /\ row' = Consume({c})
    /\ IF \E a \in Requests : IsActive(a)
       THEN /\ holder' = [a \in Requests |-> IF IsActive(a) THEN d ELSE holder[a]]
            /\ UNCHANGED status
       ELSE /\ holder' = [holder EXCEPT ![r] = d]
            /\ status' = [status EXCEPT ![r] = "active"]
    /\ UNCHANGED <<account, born, sending, phoneCode, check, compared, sends, credential>>

\* cancel(): only with the request's current token.
Cancel(r, d) ==
    /\ IsActive(r)
    /\ holder[r] = d
    /\ status' = [status EXCEPT ![r] = "cancelled"]
    /\ UNCHANGED <<account, row, born, sending, phoneCode, check, compared, sends,
                   credential, holder>>

\* eraseScoped(): the customer's row goes, its credentials with it, and every
\* challenge of the customer is used up.
Erase(r) ==
    /\ account
    /\ IsActive(r)
    /\ account' = FALSE
    /\ status' = [status EXCEPT ![r] = "erased"]
    /\ row' = Consume(Challenges)
    /\ credential' = [d \in Devices |-> "none"]
    /\ UNCHANGED <<born, sending, phoneCode, check, compared, sends, holder>>

RequestsNext ==
    \/ \E c \in Challenges :
          \/ Challenge(c) \/ IssueIntake(c) \/ RedeemIntake(c)
          \/ ProviderAnswers(c) \/ MarkSent(c) \/ Expire(c)
    \/ \E v \in Checks :
          \/ \E c \in Challenges, d \in Devices : VerifyBegin(v, c, d)
          \/ Compare(v) \/ VerifyCommit(v)
    \/ \E r \in Requests :
          \/ \E c \in Challenges, d \in Devices : SubmitRequest(r, c, d)
          \/ \E d \in Devices : Cancel(r, d)
          \/ Erase(r)

RequestsSpec == RequestsInit /\ [][RequestsNext]_requestVars

-----------------------------------------------------------------------------
\* A code is compared at most MaxAttempts times however many verify() calls run
\* together, and handed to the provider once: an intake's grant cannot be
\* redeemed twice (privacyDeletion.service.ts:279-301, 428-435).
CodesLimited ==
    \A c \in Challenges : compared[c] <= MaxAttempts /\ sends[c] <= 1

\* Of the codes a customer asked for, at most one is usable, whatever the order
\* the sends end in (privacyDeletion.service.ts:391-404).
OneUsableCode ==
    \A c, e \in Challenges :
        Usable(c) /\ Usable(e) /\ "INTAKE" \notin {row[c].purpose, row[e].purpose} => c = e

\* Once the customer is erased no code, no credential and no request of that
\* customer is left to use, and a send or a verification that was under way does
\* not bring one back (privacyDeletion.service.ts:454-476, 666-667).
NothingOutlivesErasure ==
    ~account => /\ \A c \in Challenges : ~Usable(c)
             /\ \A d \in Devices : credential[d] # "usable"
             /\ \A r \in Requests : ~IsActive(r)

\* The customer holds at most one usable credential, whatever verifications ran
\* at once (privacyDeletion.service.ts:462).
OneCredential == Cardinality({d \in Devices : credential[d] = "usable"}) <= 1

\* A code is sent once and tried a bounded number of times, a customer holds one usable
\* code and one usable credential at most, and after their erasure none of them works
\* (privacyDeletion.service.ts:279-301, 391-404, 428-462).
IdentitySound == CodesLimited /\ OneUsableCode /\ OneCredential /\ NothingOutlivesErasure

\* "Keep only the newest challenge usable so a resend cannot accidentally validate
\* an older app challenge" (privacyDeletion.service.ts:396-398): no step makes a
\* challenge usable by using up one that was created after it.
NewestStaysUsable ==
    [][\A c, e \in Challenges :
          /\ ~Usable(c) /\ Usable(c)'
          /\ Exists(e) /\ ~row[e].consumed /\ row'[e].consumed
          => row[e].born < row[c].born]_requestVars
=============================================================================
