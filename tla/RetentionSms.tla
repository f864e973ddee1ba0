---------------------------- MODULE RetentionSms ----------------------------
(***************************************************************************)
(* The 90-day text messages: drafting and sending runs of the cron job,    *)
(* STOP replies and signed delivery callbacks (retention90.job.ts,         *)
(* retentionSms.service.ts, retentionSms.routes.ts).                       *)
(*                                                                         *)
(* One tick of the clock is a time of day that is either inside or outside *)
(* the sending window, and Quiet ticks stand for ninety days. A run reads  *)
(* the clock when it begins and keeps that time. The recipient row of a    *)
(* phone is locked by each claim and by each STOP.                         *)
(***************************************************************************)
EXTENDS Integers, FiniteSets, Sequences

CONSTANTS
    Customers, Phones, Jobs, Callbacks,
    PhoneOf,        \* [Customers -> Phones], the phone of each profile
    ProviderStatuses,   \* the statuses the provider reports
    NoJob, NoKey,
    Quiet,          \* ninety days, in ticks
    Lapse,          \* two years, in ticks
    Consents,       \* whether profiles have recorded an express consent
    Open,           \* the times inside the sending window
    Limit,          \* RETENTION_SMS_MAX_PER_RUN
    LastTime        \* bound on the clock

RetentionAssumption ==
    /\ Quiet \in Nat \ {0} /\ Lapse \in Nat /\ Limit \in Nat \ {0} /\ LastTime \in Nat
    /\ Open \subseteq Nat /\ Consents \subseteq BOOLEAN
    /\ PhoneOf \in [Customers -> Phones]
    /\ ProviderStatuses \subseteq {"queued", "sending", "delivered", "failed"}
    /\ "queued" \in ProviderStatuses
    /\ NoJob \notin Jobs
    /\ NoKey \notin Customers \X Int

VARIABLES
    smsClock,
    customer,   \* [Customers -> Customer]
    recipient,  \* [Phones -> Recipient], the SystemSetting row of a phone
    message,    \* the RetentionMessage rows, by customer and anchor
    holder,     \* [Phones -> Jobs or NoJob], the row lock of the recipient
    job,        \* [Jobs -> Job], the runs of the cron
    sent,       \* what the provider has taken: a sequence of Submission
    callback    \* [Callbacks -> Callback], signed callbacks being handled

smsVars == <<smsClock, customer, recipient, message, holder, job, sent, callback>>

Never == -1
Time == {Never} \cup 0 .. LastTime

\* anchor is the time of the last delivered order.
Customer == [anchor: Time, consent: BOOLEAN, smsMarketingOptOut: BOOLEAN]

Recipient == [optedOut: BOOLEAN, lastAttemptAt: Time]

Keys == Customers \X Time

\* How late in a delivery each status of the provider comes.
deliveryRank == [queued |-> 1, sending |-> 3, delivered |-> 5, failed |-> 5]

\* providerMessageId is a place in sent, 0 for none.
Message == [status: {"DRY_RUN", "FAILED", "SENT"}, attemptedAt: Time,
            providerStatus: ProviderStatuses \cup
                            {"none", "sending", "suppressed", "rejected", "unknown"},
            providerMessageId: Nat]

Submission == [key: Keys, at: Time, status: ProviderStatuses]

Job == [pc: {"idle", "draft", "select", "next", "claim", "skip", "recheck", "send",
             "suppress", "record"},
        now: Time, todo: SUBSET Keys, key: Keys \cup {NoKey},
        sid: Nat, status: ProviderStatuses \cup {"none", "rejected", "unknown"}]

Callback == [pc: {"idle", "write"}, sid: Nat, status: ProviderStatuses \cup {"none"},
             readStatus: ProviderStatuses \cup {"none", "sending", "unknown"}, readId: Nat]

IdleJob == [pc |-> "idle", now |-> Never, todo |-> {}, key |-> NoKey,
            sid |-> 0, status |-> "none"]

IdleCallback == [pc |-> "idle", sid |-> 0, status |-> "none",
                 readStatus |-> "none", readId |-> 0]

SmsTypeOK ==
    /\ smsClock \in 0 .. LastTime
    /\ customer \in [Customers -> Customer]
    /\ recipient \in [Phones -> Recipient]
    /\ DOMAIN message \subseteq Keys
    /\ \A k \in DOMAIN message : message[k] \in Message
    /\ holder \in [Phones -> Jobs \cup {NoJob}]
    /\ job \in [Jobs -> Job]
    /\ sent \in Seq(Submission)
    /\ callback \in [Callbacks -> Callback]

SmsInit ==
    /\ smsClock = 0
    /\ customer \in [Customers -> [anchor: {Never, 0}, consent: Consents,
                                   smsMarketingOptOut: {FALSE}]]
    /\ recipient = [p \in Phones |-> [optedOut |-> FALSE, lastAttemptAt |-> Never]]
    /\ message = << >>
    /\ holder = [p \in Phones |-> NoJob]
    /\ job = [j \in Jobs |-> IdleJob]
    /\ sent = << >>
    /\ callback = [c \in Callbacks |-> IdleCallback]

-----------------------------------------------------------------------------
(***************************************************************************)
(* The run: drafting, then sending                                         *)
(***************************************************************************)
At(j, pc) == job[j].pc = pc

Advance(j, pc) == job' = [job EXCEPT ![j].pc = pc]

NextMessage(j) == job' = [job EXCEPT ![j] = [IdleJob EXCEPT
                             !.pc = "next", !.now = job[j].now, !.todo = job[j].todo]]

Due(anchor, now) == anchor + Quiet <= now

Lapsed(c, now) == ~customer[c].consent /\ customer[c].anchor + Lapse < now

\* runRetention90Job reads the customers with a delivered order and no opt-out.
DraftScan(j) ==
    /\ At(j, "idle")
    /\ job' = [job EXCEPT ![j] = [IdleJob EXCEPT
          !.pc = "draft",
          !.todo = {<<c, customer[c].anchor>> : c \in
                      {c \in Customers : /\ customer[c].anchor # Never
                                         /\ ~customer[c].smsMarketingOptOut
                                         /\ Due(customer[c].anchor, smsClock)
                                         /\ ~Lapsed(c, smsClock)}}]]
    /\ UNCHANGED <<smsClock, customer, recipient, message, holder, sent, callback>>

NewDraft == [status |-> "DRY_RUN", attemptedAt |-> Never,
             providerStatus |-> "none", providerMessageId |-> 0]

\* createMany with skipDuplicates.
CreateDrafts(j) ==
    /\ At(j, "draft")
    /\ message' = [k \in DOMAIN message \cup job[j].todo |->
                      IF k \in DOMAIN message THEN message[k]
                      ELSE NewDraft]
    /\ Advance(j, "select")
    /\ UNCHANGED <<smsClock, customer, recipient, holder, sent, callback>>

Drafts == {k \in DOMAIN message : message[k].status = "DRY_RUN" /\ message[k].attemptedAt = Never}

\* sendRetentionMessages: the oldest due drafts, up to the limit.
SelectMessages(j) ==
    LET due == {k \in Drafts : Due(k[2], smsClock)} IN
    /\ At(j, "select")
    /\ smsClock \in Open
    /\ \E chosen \in SUBSET due :
          /\ Cardinality(chosen) <= Limit
          /\ chosen # due => Cardinality(chosen) = Limit
          /\ \A k \in chosen, l \in due \ chosen : k[2] <= l[2]
          /\ job' = [job EXCEPT ![j].pc = "next", ![j].now = smsClock, ![j].todo = chosen]
    /\ UNCHANGED <<smsClock, customer, recipient, message, holder, sent, callback>>

OutsideWindow(j) ==
    /\ At(j, "select")
    /\ smsClock \notin Open
    /\ job' = [job EXCEPT ![j] = IdleJob]
    /\ UNCHANGED <<smsClock, customer, recipient, message, holder, sent, callback>>

EndRun(j) ==
    /\ At(j, "next")
    /\ job[j].todo = {}
    /\ job' = [job EXCEPT ![j] = IdleJob]
    /\ UNCHANGED <<smsClock, customer, recipient, message, holder, sent, callback>>

\* What the claim reads once it holds the recipient row: the phone, and every
\* profile that shares it.
MayClaim(k, now) ==
    LET r == recipient[PhoneOf[k[1]]]
        Sharing == {d \in Customers : PhoneOf[d] = PhoneOf[k[1]]}
    IN
    /\ ~r.optedOut
    /\ r.lastAttemptAt # Never => Due(r.lastAttemptAt, now)
    /\ \A d \in Sharing : ~customer[d].smsMarketingOptOut /\ customer[d].anchor <= k[2]
    /\ customer[k[1]].anchor = k[2]
    /\ Due(k[2], now)
    /\ ~Lapsed(k[1], now)

\* lockedRecipient, then the reads of the claim. A pending privacy request, or a
\* profile whose phone was edited, may always forbid it.
ClaimRead(j, k) ==
    /\ At(j, "next")
    /\ k \in job[j].todo
    /\ \A l \in job[j].todo : k[2] <= l[2]
    /\ holder[PhoneOf[k[1]]] = NoJob
    /\ holder' = [holder EXCEPT ![PhoneOf[k[1]]] = j]
    /\ \E pc \in {"skip"} \cup (IF MayClaim(k, job[j].now) THEN {"claim"} ELSE {}) :
          job' = [job EXCEPT ![j].key = k, ![j].todo = @ \ {k}, ![j].pc = pc]
    /\ UNCHANGED <<smsClock, customer, recipient, message, sent, callback>>

ReleasePhone(j) == holder' = [p \in Phones |-> IF holder[p] = j THEN NoJob ELSE holder[p]]

ClaimSkip(j) ==
    LET k == job[j].key IN
    /\ At(j, "skip")
    /\ message' = IF k \in Drafts
                  THEN [message EXCEPT ![k].status = "FAILED", ![k].providerStatus = "suppressed"]
                  ELSE message
    /\ NextMessage(j)
    /\ ReleasePhone(j)
    /\ UNCHANGED <<smsClock, customer, recipient, sent, callback>>

\* Mutant: the attempt is not remembered for the phone.
ClaimCommit_PhoneForgotten(j) ==
    LET k == job[j].key IN
    /\ At(j, "claim")
    /\ k \in Drafts
    /\ message' = [message EXCEPT ![k].status = "FAILED", ![k].attemptedAt = job[j].now,
                                  ![k].providerStatus = "sending"]
    /\ Advance(j, "recheck")
    /\ ReleasePhone(j)
    /\ UNCHANGED <<smsClock, customer, recipient, sent, callback>>

\* The claim and the attempt of the phone, committed together. A claim lost to
\* another run goes on with the next message.
ClaimCommit(j) ==
    LET k == job[j].key
        p == PhoneOf[k[1]]
    IN
    /\ At(j, "claim")
    /\ IF k \in Drafts
       THEN /\ message' = [message EXCEPT ![k].status = "FAILED",
                                          ![k].attemptedAt = job[j].now,
                                          ![k].providerStatus = "sending"]
            /\ recipient' = [recipient EXCEPT ![p].lastAttemptAt = job[j].now]
            /\ Advance(j, "recheck")
       ELSE /\ NextMessage(j)
            /\ UNCHANGED <<message, recipient>>
    /\ ReleasePhone(j)
    /\ UNCHANGED <<smsClock, customer, sent, callback>>

\* Mutant: a STOP since the claim is not looked for.
Recheck_Skipped(j) ==
    /\ At(j, "recheck")
    /\ Advance(j, "send")
    /\ UNCHANGED <<smsClock, customer, recipient, message, holder, sent, callback>>

\* The last look at the opt-out before the provider is called.
Recheck(j) ==
    LET k == job[j].key IN
    /\ At(j, "recheck")
    /\ IF recipient[PhoneOf[k[1]]].optedOut
       THEN /\ message' = [message EXCEPT ![k].providerStatus = "suppressed"]
            /\ NextMessage(j)
       ELSE /\ Advance(j, "send")
            /\ UNCHANGED message
    /\ UNCHANGED <<smsClock, customer, recipient, holder, sent, callback>>

\* The provider takes the message, and the answer arrives or is lost.
SendTaken(j) ==
    /\ At(j, "send")
    /\ sent' = Append(sent, [key |-> job[j].key, at |-> smsClock, status |-> "queued"])
    /\ \E answered \in BOOLEAN :
          job' = [job EXCEPT ![j].pc = "record",
                             ![j].sid = IF answered THEN Len(sent') ELSE 0,
                             ![j].status = IF answered THEN "queued" ELSE "unknown"]
    /\ UNCHANGED <<smsClock, customer, recipient, message, holder, callback>>

\* The provider is not reached or refuses: 21610 means that the phone opted out.
SendRefused(j) ==
    /\ At(j, "send")
    /\ \E status \in {"rejected", "unknown"}, optedOut \in BOOLEAN :
          /\ optedOut => status = "rejected"
          /\ job' = [job EXCEPT ![j].pc = IF optedOut THEN "suppress" ELSE "record",
                                ![j].sid = 0, ![j].status = status]
    /\ UNCHANGED <<smsClock, customer, recipient, message, holder, sent, callback>>

\* suppressRetentionPhone, in a transaction that takes the recipient row.
Suppress(p) ==
    /\ holder[p] = NoJob
    /\ recipient' = [recipient EXCEPT ![p].optedOut = TRUE]
    /\ customer' = [c \in Customers |->
          IF PhoneOf[c] = p THEN [customer[c] EXCEPT !.smsMarketingOptOut = TRUE]
          ELSE customer[c]]

SuppressAfterRefusal(j) ==
    /\ At(j, "suppress")
    /\ Suppress(PhoneOf[job[j].key[1]])
    /\ Advance(j, "record")
    /\ UNCHANGED <<smsClock, message, holder, sent, callback>>

\* The outcome is written unless a callback has arrived first.
Record(j) ==
    LET k == job[j].key IN
    /\ At(j, "record")
    /\ message' =
          IF message[k].providerStatus = "sending" /\ message[k].providerMessageId = 0
          THEN [message EXCEPT
                  ![k].status = IF job[j].sid # 0 THEN "SENT" ELSE "FAILED",
                  ![k].providerMessageId = job[j].sid, ![k].providerStatus = job[j].status]
          ELSE message
    /\ NextMessage(j)
    /\ UNCHANGED <<smsClock, customer, recipient, holder, sent, callback>>

\* Mutant: the message of a run that dies is put back among the drafts.
Die_PutBack(j) ==
    /\ ~At(j, "idle")
    /\ message' = IF job[j].key = NoKey THEN message
                  ELSE [message EXCEPT ![job[j].key] = NewDraft]
    /\ job' = [job EXCEPT ![j] = IdleJob]
    /\ ReleasePhone(j)
    /\ UNCHANGED <<smsClock, customer, recipient, sent, callback>>

\* The run's process dies, or a query of its throws: a transaction rolls back.
Die(j) ==
    /\ ~At(j, "idle")
    /\ job' = [job EXCEPT ![j] = IdleJob]
    /\ ReleasePhone(j)
    /\ UNCHANGED <<smsClock, customer, recipient, message, sent, callback>>

-----------------------------------------------------------------------------
(***************************************************************************)
(* STOP replies and delivery callbacks                                     *)
(***************************************************************************)
Stop(p) ==
    /\ ~recipient[p].optedOut
    /\ Suppress(p)
    /\ UNCHANGED <<smsClock, message, holder, job, sent, callback>>

\* The provider's delivery goes on.
ProviderAdvances(i) ==
    /\ \E status \in ProviderStatuses :
          /\ deliveryRank[status] > deliveryRank[sent[i].status]
          /\ sent' = [sent EXCEPT ![i].status = status]
    /\ UNCHANGED <<smsClock, customer, recipient, message, holder, job, callback>>

\* The statuses a callback about submission i may carry: late or again.
Reported(i) == {s \in ProviderStatuses :
                   s = sent[i].status \/ deliveryRank[s] < deliveryRank[sent[i].status]}

Supersedes(m, status) ==
    /\ m.providerMessageId # 0 => deliveryRank[m.providerStatus] < deliveryRank[status]
    /\ m.providerStatus \notin {"suppressed", "rejected"}

\* recordRetentionDelivery reads the message and decides.
CallbackRead(c, i, status) ==
    LET m == message[sent[i].key] IN
    /\ callback[c].pc = "idle"
    /\ m.attemptedAt # Never
    /\ m.providerMessageId \in {0, i}
    /\ Supersedes(m, status)
    /\ callback' = [callback EXCEPT ![c] =
          [pc |-> "write", sid |-> i, status |-> status,
           readStatus |-> m.providerStatus, readId |-> m.providerMessageId]]
    /\ UNCHANGED <<smsClock, customer, recipient, message, holder, job, sent>>

\* Mutant: the row is written by id.
CallbackWrite_ById(c) ==
    LET b == callback[c]
        k == sent[b.sid].key
    IN
    /\ b.pc = "write"
    /\ message' = [message EXCEPT
          ![k].providerMessageId = b.sid, ![k].providerStatus = b.status,
          ![k].status = IF b.status = "failed" THEN "FAILED" ELSE "SENT"]
    /\ callback' = [callback EXCEPT ![c] = IdleCallback]
    /\ UNCHANGED <<smsClock, customer, recipient, holder, job, sent>>

\* The write is conditional on what was read, and acknowledged either way.
CallbackWrite(c) ==
    LET b == callback[c]
        k == sent[b.sid].key
        m == message[k]
    IN
    /\ b.pc = "write"
    /\ message' =
          IF m.providerStatus = b.readStatus /\ m.providerMessageId = b.readId
          THEN [message EXCEPT
                  ![k].providerMessageId = b.sid, ![k].providerStatus = b.status,
                  ![k].status = IF b.status = "failed" THEN "FAILED" ELSE "SENT"]
          ELSE message
    /\ callback' = [callback EXCEPT ![c] = IdleCallback]
    /\ UNCHANGED <<smsClock, customer, recipient, holder, job, sent>>

-----------------------------------------------------------------------------
(***************************************************************************)
(* The rest of the program and the clock                                   *)
(***************************************************************************)

\* An order of the customer is delivered, or the profile is new.
OrderDelivered(c) ==
    /\ customer[c].anchor < smsClock
    /\ customer' = [customer EXCEPT ![c].anchor = smsClock]
    /\ UNCHANGED <<smsClock, recipient, message, holder, job, sent, callback>>

Tick ==
    /\ smsClock < LastTime
    /\ smsClock' = smsClock + 1
    /\ UNCHANGED <<customer, recipient, message, holder, job, sent, callback>>

JobStep(j) ==
    \/ DraftScan(j)
    \/ CreateDrafts(j)
    \/ SelectMessages(j)
    \/ OutsideWindow(j)
    \/ EndRun(j)
    \/ \E k \in job[j].todo : ClaimRead(j, k)
    \/ ClaimSkip(j)
    \/ ClaimCommit(j)
    \/ Recheck(j)
    \/ SendTaken(j)
    \/ SendRefused(j)
    \/ SuppressAfterRefusal(j)
    \/ Record(j)
    \/ Die(j)

SmsNext ==
    \/ \E j \in Jobs : JobStep(j)
    \/ \E p \in Phones : Stop(p)
    \/ \E i \in DOMAIN sent : ProviderAdvances(i)
    \/ \E c \in Callbacks, i \in DOMAIN sent : \E s \in Reported(i) : CallbackRead(c, i, s)
    \/ \E c \in Callbacks : CallbackWrite(c)
    \/ \E c \in Customers : OrderDelivered(c)
    \/ Tick

SmsSpec == SmsInit /\ [][SmsNext]_smsVars

-----------------------------------------------------------------------------
(***************************************************************************)
(* Properties                                                              *)
(***************************************************************************)

\* "A claimed attempt is never automatically retried": whatever dies, however
\* many runs overlap and whatever answers are lost, the provider takes a message
\* at most once.
SubmittedOnce ==
    \A i, l \in DOMAIN sent : sent[i].key = sent[l].key => i = l

\* The recipient rows "suppress attempts to that number for 90 days across
\* duplicate customer profiles": two attempts at one phone are ninety days apart.
AttemptsApart ==
    \A k, l \in DOMAIN message :
        /\ k # l
        /\ PhoneOf[k[1]] = PhoneOf[l[1]]
        /\ message[k].attemptedAt # Never
        /\ message[l].attemptedAt # Never
        /\ message[k].attemptedAt <= message[l].attemptedAt
        => Due(message[k].attemptedAt, message[l].attemptedAt)

\* No message is submitted twice and no phone is attempted twice within ninety
\* days, over overlapping and dying runs (retentionSms.service.ts:71-118).
OneAttempt == SubmittedOnce /\ AttemptsApart

Sending(j, p) == At(j, "send") /\ PhoneOf[job[j].key[1]] = p

\* Once a STOP is recorded no run begins a submission to that phone: only one that
\* had passed its final check may still go out.
StopHeeded ==
    \A j \in Jobs, p \in Phones :
        recipient[p].optedOut => recipient'[p].optedOut
                                 /\ (Sending(j, p)' => Sending(j, p))

\* "Terminal or older events cannot overwrite newer evidence": once a callback or
\* an accepted answer has named the message, its status only moves on.
EvidenceKept ==
    \A k \in DOMAIN message :
        message[k].providerMessageId # 0 =>
            /\ message'[k].providerMessageId = message[k].providerMessageId
            /\ \/ message'[k] = message[k]
               \/ deliveryRank[message'[k].providerStatus] >
                     deliveryRank[message[k].providerStatus]

\* What no step does to a STOP and to the evidence of a delivery
\* (retentionSms.service.ts:93-98, 120-138).
StopAndEvidenceKept == [][StopHeeded /\ EvidenceKept]_smsVars
=============================================================================
