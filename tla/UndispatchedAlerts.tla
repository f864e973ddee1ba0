-------------------------- MODULE UndispatchedAlerts --------------------------
(***************************************************************************)
(* The e-mail that warns the owner of an order nobody dispatches. Each     *)
(* instance of the server polls for orders that have waited too long, not  *)
(* counting edit pauses, claims one at a time by compare-and-set, reads it *)
(* again, sends the e-mail and marks the order. Instances overlap during a *)
(* deployment, may stop anywhere, and their sends may fail after the       *)
(* provider accepted them.                                                 *)
(*                                                                         *)
(* The module composes the alert monitor with OrderEditPause, whose        *)
(* requests and orders move on between any two of its steps.               *)
(***************************************************************************)
EXTENDS OrderEditPause

CONSTANTS
    Workers,            \* instances of the server
    AlertAfter,         \* UNDISPATCHED_ALERT_AFTER_MINUTES
    MaxAge,             \* UNDISPATCHED_ALERT_MAX_AGE_HOURS
    StaleAfter,         \* age at which a claim may be taken over
    CANDIDATE_LIMIT,
    KeyWindow,          \* how long the provider keeps an idempotency key
    CheckTime           \* bound on the time from the start of a check to a send

\* "Resend retains keys for 24 hours", which is also the default of MaxAge: what is
\* left for the last check of an order is the threshold before the first one.
ASSUME AlertAssumption ==
    /\ AlertAfter \in Nat \ {0}
    /\ MaxAge \in Nat
    /\ StaleAfter \in Nat \ {0}
    /\ CANDIDATE_LIMIT \in Nat \ {0}
    /\ KeyWindow \in Nat /\ CheckTime \in Nat
    /\ MaxAge + CheckTime < AlertAfter + KeyWindow

VARIABLES
    alert,      \* [Orders -> the two alert columns of the order]
    worker,     \* [Workers -> where the instance's check stands]
    keys,       \* [Orders -> when the provider last took the order's key, or 0]
    inbox       \* [Orders -> e-mails that reached the owner]

alertVars == <<alert, worker, keys, inbox>>
vars == <<pauseVars, alertVars>>

-----------------------------------------------------------------------------
Worker == [pc: {"idle", "next", "read", "send", "mark", "release"},
           now: Nat, todo: SUBSET Orders, order: Orders \cup {NoOrder}, claimTime: Nat]

Resting == [pc |-> "idle", now |-> 0, todo |-> {}, order |-> NoOrder, claimTime |-> 0]

TypeOK ==
    /\ PauseTypeOK
    /\ alert \in [Orders -> [claimedAt: Nat, sentAt: Nat]]
    /\ worker \in [Workers -> Worker]
    /\ keys \in [Orders -> Nat]
    /\ inbox \in [Orders -> Nat]

Init ==
    /\ PauseInit
    /\ alert = [o \in Orders |-> [claimedAt |-> 0, sentAt |-> 0]]
    /\ worker = [w \in Workers |-> Resting]
    /\ keys = [o \in Orders |-> 0]
    /\ inbox = [o \in Orders |-> 0]

Waiting(o, now) == dispatchWaitingMilliseconds(order[o].createdAt, now, PausesOf(o))

Undispatched(o) == order[o].status = "PLACED" /\ order[o].dispatchedAt = 0

\* Mutant: an order that was ever claimed is not looked at again.
Claimable_NeverStale(o, now) == alert[o].claimedAt = 0

\* No other instance has a claim that is recent at now.
Claimable(o, now) ==
    \/ alert[o].claimedAt = 0
    \/ alert[o].claimedAt + StaleAfter <= now

\* Mutant: the age of an order is not limited.
Candidates_AnyAge(now) ==
    {o \in Orders :
        /\ Undispatched(o)
        /\ order[o].createdAt + AlertAfter <= now
        /\ alert[o].sentAt = 0
        /\ Claimable(o, now)
        /\ now - order[o].createdAt
             - dispatch_edit_pause_duration(PausesOf(o), order[o].createdAt, now)
             >= AlertAfter}

\* The rows of findCandidates before its LIMIT.
Candidates(now) ==
    {o \in Orders :
        /\ Undispatched(o)
        /\ order[o].createdAt + MaxAge >= now
        /\ order[o].createdAt + AlertAfter <= now
        /\ alert[o].sentAt = 0
        /\ Claimable(o, now)
        /\ now - order[o].createdAt
             - dispatch_edit_pause_duration(PausesOf(o), order[o].createdAt, now)
             >= AlertAfter}

\* The first rows of S by creation time, at most CANDIDATE_LIMIT of them.
Oldest(S) ==
    {T \in SUBSET S :
        /\ Cardinality(T) = Min({Cardinality(S), CANDIDATE_LIMIT})
        /\ \A o \in T, p \in S \ T : order[o].createdAt <= order[p].createdAt}

Goto(w, pc) == worker' = [worker EXCEPT ![w].pc = pc]

\* The loop of the check goes on with the next candidate.
Continue(w) ==
    worker' = [worker EXCEPT ![w] =
        IF @.todo = {} THEN Resting
        ELSE [@ EXCEPT !.pc = "next", !.order = NoOrder, !.claimTime = 0]]

-----------------------------------------------------------------------------
\* The timer fires (isRunning: a check under way is not started again).
RunCheck(w) ==
    /\ worker[w].pc = "idle"
    /\ Candidates(clock) # {}
    /\ \E T \in Oldest(Candidates(clock)) :
          worker' = [worker EXCEPT ![w] =
                        [Resting EXCEPT !.pc = "next", !.now = clock, !.todo = T]]
    /\ UNCHANGED <<pauseVars, alert, keys, inbox>>

\* The compare-and-set of the claim; stale claims are judged by the time the
\* check began.
Claim(w, o) ==
    LET q == worker[w]
        won == Undispatched(o) /\ alert[o].sentAt = 0 /\ Claimable(o, q.now)
    IN
    /\ q.pc = "next"
    /\ o \in q.todo
    /\ \A p \in q.todo : order[o].createdAt <= order[p].createdAt
    /\ alert' = IF won THEN [alert EXCEPT ![o].claimedAt = clock] ELSE alert
    /\ worker' = [worker EXCEPT ![w] =
          IF won THEN [q EXCEPT !.pc = "read", !.order = o, !.todo = @ \ {o},
                                !.claimTime = clock]
          ELSE IF q.todo = {o} THEN Resting
          ELSE [q EXCEPT !.todo = @ \ {o}]]
    /\ UNCHANGED <<pauseVars, keys, inbox>>

\* getClaimedOrder: dispatched or edited meanwhile, the claim is given back.
ReadClaimed(w) ==
    LET q == worker[w] IN
    /\ q.pc = "read"
    /\ IF Undispatched(q.order) /\ Waiting(q.order, q.now) >= AlertAfter
       THEN Goto(w, "send")
       ELSE Goto(w, "release")
    /\ UNCHANGED <<pauseVars, alert, keys, inbox>>

\* The provider knows the key of the order's e-mail.
Remembered(o) == keys[o] # 0 /\ clock < keys[o] + KeyWindow

\* The provider takes the e-mail; under a key that it knows it delivers nothing.
Deliver(o) ==
    IF Remembered(o) THEN UNCHANGED <<keys, inbox>>
    ELSE /\ keys' = [keys EXCEPT ![o] = clock]
         /\ inbox' = [inbox EXCEPT ![o] = @ + 1]

SendAccepted(w) ==
    /\ worker[w].pc = "send"
    /\ Deliver(worker[w].order)
    /\ Goto(w, "mark")
    /\ UNCHANGED <<pauseVars, alert>>

\* Rejected, as a known key with another text may be, or the answer did not come
\* within EMAIL_TIMEOUT_MS although the e-mail may have been accepted.
SendFailed(w) ==
    /\ worker[w].pc = "send"
    /\ Deliver(worker[w].order) \/ UNCHANGED <<keys, inbox>>
    /\ Goto(w, "release")
    /\ UNCHANGED <<pauseVars, alert>>

\* The row still carries this instance's claim and no alert.
HoldsClaim(q) == alert[q.order].claimedAt = q.claimTime /\ alert[q.order].sentAt = 0

MarkSent(w) ==
    LET q == worker[w] IN
    /\ q.pc = "mark"
    /\ alert' = IF HoldsClaim(q)
                THEN [alert EXCEPT ![q.order] = [claimedAt |-> 0, sentAt |-> clock]]
                ELSE alert
    /\ Continue(w)
    /\ UNCHANGED <<pauseVars, keys, inbox>>

\* The database refuses the update: the catch clause releases the claim.
MarkFailed(w) ==
    /\ worker[w].pc = "mark"
    /\ Goto(w, "release")
    /\ UNCHANGED <<pauseVars, alert, keys, inbox>>

Release(w) ==
    LET q == worker[w] IN
    /\ q.pc = "release"
    /\ alert' = IF HoldsClaim(q) THEN [alert EXCEPT ![q.order].claimedAt = 0] ELSE alert
    /\ Continue(w)
    /\ UNCHANGED <<pauseVars, keys, inbox>>

\* The instance goes down, or the claim or the release itself throws: the claim
\* stays in the row. The guard leaves the clock room for the claim to grow stale.
Crash(w) ==
    /\ worker[w].pc # "idle"
    /\ clock + StaleAfter <= MaxTime
    /\ worker' = [worker EXCEPT ![w] = Resting]
    /\ UNCHANGED <<pauseVars, alert, keys, inbox>>

WorkerStep(w) ==
    \/ RunCheck(w)
    \/ \E o \in Orders : Claim(w, o)
    \/ ReadClaimed(w)
    \/ SendAccepted(w)
    \/ SendFailed(w)
    \/ MarkSent(w)
    \/ MarkFailed(w)
    \/ Release(w)
    \/ Crash(w)

\* Sends are not put off for ever: at most CANDIDATE_LIMIT of them, with a timeout each
\* and an update of the row between them, follow the start of a check.
InTime(w) ==
    worker[w].pc \in {"read", "send"} \/ worker[w].todo # {} =>
        clock < worker[w].now + CheckTime

\* The orders, their edit pauses and the clock move on.
PauseStep ==
    /\ PauseNext
    /\ clock' = clock \/ \A w \in Workers : InTime(w)
    /\ UNCHANGED alertVars

Next ==
    \/ PauseStep
    \/ \E w \in Workers : WorkerStep(w)

Spec == Init /\ [][Next]_vars

\* Timers fire and awaited calls end, with an answer or by their timeout. A
\* provider that is asked again and again takes the e-mail in the end; the
\* database may refuse every update that marks an order.
Fairness ==
    /\ WF_vars(PauseStep /\ clock' # clock)
    /\ \A w \in Workers :
          /\ WF_vars(RunCheck(w))
          /\ WF_vars(\E o \in Orders : Claim(w, o))
          /\ WF_vars(ReadClaimed(w))
          /\ WF_vars(SendAccepted(w) \/ SendFailed(w))
          /\ SF_vars(SendAccepted(w) /\ inbox' # inbox)
          /\ WF_vars(MarkSent(w) \/ MarkFailed(w))
          /\ WF_vars(Release(w))

FairSpec == Spec /\ Fairness

-----------------------------------------------------------------------------
(***************************************************************************)
(* Properties                                                              *)
(***************************************************************************)

\* The owner gets at most one e-mail for an order, although a send may be
\* repeated after a lost answer, a failed update, a crash or a claim taken over,
\* and the provider forgets the key of the first: by then the order is too old.
AtMostOneAlert == \A o \in Orders : inbox[o] <= 1

\* Two instances work on the same order only after the claim of one of them had
\* become stale, so overlapping checks do not send at the same time.
ClaimsExclusive ==
    \A v, w \in Workers :
        v # w /\ worker[v].order = worker[w].order /\ worker[v].order # NoOrder =>
            \/ worker[v].claimTime + StaleAfter <= worker[w].claimTime
            \/ worker[w].claimTime + StaleAfter <= worker[v].claimTime

\* Once the dispatchers leave the orders alone, the owner gets an e-mail about
\* every order that is undispatched past the threshold, editing time deducted,
\* whatever instances crashed with its claim and whatever sends and updates failed.
OverdueOrdersAlerted ==
    <>[][UNCHANGED order]_vars =>
        \A o \in Orders :
            <>[](/\ Undispatched(o)
                 /\ Waiting(o, clock) >= AlertAfter
                 /\ order[o].createdAt + MaxAge >= clock)
            => <>(inbox[o] # 0)
=============================================================================
