--------------------------- MODULE BndEmailAlerts ---------------------------
(***************************************************************************)
(* Emails about waiting B&D calls (services/bndEmailAlerts.service.ts):    *)
(* one processor per backend process, a durable receipt per call, a switch *)
(* that an admin turns, and a provider that remembers an idempotency key   *)
(* for a day.                                                              *)
(*                                                                         *)
(* What a monitor shows as fresh (BndMonitor!Fresh) is an input here: any  *)
(* set of calls, at any time.                                              *)
(***************************************************************************)
EXTENDS Integers, FiniteSets

CONSTANTS
    Orders, Processes,
    ClaimTime,      \* CLAIM_MS, in ticks
    RetryWindow,    \* RETRY_WINDOW_MS
    KeyWindow,      \* how long the provider keeps an idempotency key
    SendDelay,      \* bound on the time from a claim to the provider
    MaxAttempts,    \* emails of one check
    MaxTime         \* bound on the clock

\* "automatic retries stop 23 hours after the receipt is created": the hour that is
\* left is longer than a claim and its send take.
EmailAssumption ==
    /\ {ClaimTime, RetryWindow, KeyWindow, SendDelay, MaxAttempts, MaxTime} \subseteq Nat
    /\ RetryWindow + SendDelay < KeyWindow

VARIABLES
    clock,
    enabled,    \* the setting bndEmailAlertsEnabled
    fresh,      \* [Processes -> SUBSET Orders]
    proc,       \* [Processes -> Processor]
    receipts,   \* [Orders -> Receipt], BndEmailAlert
    keys,       \* [Orders -> Int], when the provider accepted the key of the order
    delivered,  \* [Orders -> Nat], the emails delivered
    sentLate    \* an email was sent with the switch off that nobody had in hand

dbVars == <<enabled, receipts>>
providerVars == <<keys, delivered>>
vars == <<clock, fresh, proc, dbVars, providerVars, sentLate>>

Never == -1

\* The switch is read ("loop", "confirm") before the answer is used ("next", "go").
Processor == [pc: {"idle", "start", "loop", "next", "receipt", "claim", "confirm", "go",
                   "send", "mark"},
              on: BOOLEAN, todo: SUBSET Orders, order: SUBSET Orders, now: Int,
              attempted: 0 .. MaxAttempts,
              inHand: BOOLEAN]   \* was about to be sent when the switch was turned off
IdleProcessor == [pc |-> "idle", on |-> FALSE, todo |-> {}, order |-> {}, now |-> 0,
                  attempted |-> 0, inHand |-> FALSE]

Receipt == [createdAt: Int, claimedAt: Int, sentAt: Int]
NoReceipt == [createdAt |-> Never, claimedAt |-> Never, sentAt |-> Never]

EmailTypeOK ==
    /\ clock \in 0 .. MaxTime
    /\ enabled \in BOOLEAN
    /\ fresh \in [Processes -> SUBSET Orders]
    /\ proc \in [Processes -> Processor]
    /\ \A p \in Processes : Cardinality(proc[p].order) <= 1
    /\ receipts \in [Orders -> Receipt]
    /\ \A o \in Orders : receipts[o].sentAt # Never => receipts[o].claimedAt = Never
    /\ keys \in [Orders -> Int]
    /\ delivered \in [Orders -> Nat]
    /\ sentLate \in BOOLEAN

Init ==
    /\ clock = 0
    /\ enabled = FALSE
    /\ fresh = [p \in Processes |-> {}]
    /\ proc = [p \in Processes |-> IdleProcessor]
    /\ receipts = [o \in Orders |-> NoReceipt]
    /\ keys = [o \in Orders |-> Never]
    /\ delivered = [o \in Orders |-> 0]
    /\ sentLate = FALSE

-----------------------------------------------------------------------------
At(p, pc) == proc[p].pc = pc

\* The order at hand.
Subject(p) == CHOOSE o \in Orders : o \in proc[p].order

Goto(p, pc) == proc' = [proc EXCEPT ![p].pc = pc]

\* On to the next order of the check, or its end.
Onward(m) ==
    IF m.todo = {} \/ m.attempted = MaxAttempts THEN IdleProcessor
    ELSE [m EXCEPT !.pc = "loop", !.on = FALSE, !.order = {}, !.now = 0, !.inHand = FALSE]

Check(p) ==
    /\ At(p, "idle")
    /\ fresh[p] # {}
    /\ Goto(p, "start")
    /\ UNCHANGED <<clock, fresh, dbVars, providerVars, sentLate>>

Start(p) ==
    /\ At(p, "start")
    /\ proc' = [proc EXCEPT ![p] =
          IF enabled THEN Onward([IdleProcessor EXCEPT !.todo = fresh[p]]) ELSE IdleProcessor]
    /\ UNCHANGED <<clock, fresh, dbVars, providerVars, sentLate>>

LoopReads(p) ==
    /\ At(p, "loop")
    /\ proc' = [proc EXCEPT ![p].pc = "next", ![p].on = enabled]
    /\ UNCHANGED <<clock, fresh, dbVars, providerVars, sentLate>>

NextOrder(p) ==
    /\ At(p, "next")
    /\ \E o \in proc[p].todo :
          LET m == [proc[p] EXCEPT !.todo = @ \ {o}]
          IN  proc' = [proc EXCEPT ![p] =
                  IF ~m.on THEN IdleProcessor
                  ELSE IF o \notin fresh[p] THEN Onward(m)
                  ELSE [m EXCEPT !.pc = "receipt", !.order = {o}, !.now = clock]]
    /\ UNCHANGED <<clock, fresh, dbVars, providerVars, sentLate>>

\* The upsert of claim.
WriteReceipt(p) ==
    /\ At(p, "receipt")
    /\ receipts' = [receipts EXCEPT ![Subject(p)] =
          IF @ = NoReceipt THEN [NoReceipt EXCEPT !.createdAt = proc[p].now] ELSE @]
    /\ Goto(p, "claim")
    /\ UNCHANGED <<clock, fresh, enabled, providerVars, sentLate>>

\* Mutant: the retries do not end.
Claimable_Always(receipt, now) ==
    /\ receipt.sentAt = Never
    /\ receipt.claimedAt = Never \/ receipt.claimedAt <= now - ClaimTime
Claimable(receipt, now) ==
    /\ receipt.sentAt = Never
    /\ receipt.createdAt >= now - RetryWindow
    /\ receipt.claimedAt = Never \/ receipt.claimedAt <= now - ClaimTime

Claim(p) ==
    LET m == proc[p]
        o == Subject(p)
    IN  /\ At(p, "claim")
        /\ IF Claimable(receipts[o], m.now)
           THEN /\ receipts' = [receipts EXCEPT ![o].claimedAt = m.now]
                /\ Goto(p, "confirm")
           ELSE /\ proc' = [proc EXCEPT ![p] = Onward(m)]
                /\ UNCHANGED receipts
        /\ UNCHANGED <<clock, fresh, enabled, providerVars, sentLate>>

\* Mutant: the switch is not read again after the claim.
ConfirmReads_Skipped(p) ==
    /\ At(p, "confirm")
    /\ Goto(p, "go")
    /\ UNCHANGED <<clock, fresh, dbVars, providerVars, sentLate>>

ConfirmReads(p) ==
    /\ At(p, "confirm")
    /\ proc' = [proc EXCEPT ![p].pc = "go", ![p].on = enabled]
    /\ UNCHANGED <<clock, fresh, dbVars, providerVars, sentLate>>

Go(p) ==
    LET m == proc[p] IN
    /\ At(p, "go")
    /\ proc' = [proc EXCEPT ![p] =
          IF ~m.on THEN IdleProcessor
          ELSE IF ~(m.order \subseteq fresh[p]) THEN Onward(m)
          ELSE [m EXCEPT !.pc = "send"]]
    /\ UNCHANGED <<clock, fresh, dbVars, providerVars, sentLate>>

\* The provider takes the request: a key it remembers delivers nothing new.  The
\* answer confirms it, or is lost.
Provider(p) ==
    LET o == Subject(p)
        known == keys[o] # Never /\ clock < keys[o] + KeyWindow
    IN  /\ At(p, "send")
        /\ keys' = [keys EXCEPT ![o] = IF known THEN @ ELSE clock]
        /\ delivered' = [delivered EXCEPT ![o] = IF known THEN @ ELSE @ + 1]
        /\ sentLate' = (sentLate \/ ~(enabled \/ proc[p].inHand))

AttemptDone(m) == Onward([m EXCEPT !.attempted = @ + 1])

SendConfirmed(p) ==
    /\ Provider(p)
    /\ Goto(p, "mark")
    /\ UNCHANGED <<clock, fresh, dbVars>>

SendLost(p) ==
    /\ Provider(p)
    /\ proc' = [proc EXCEPT ![p] = AttemptDone(proc[p])]
    /\ UNCHANGED <<clock, fresh, dbVars>>

SendRefused(p) ==
    /\ At(p, "send")
    /\ proc' = [proc EXCEPT ![p] = AttemptDone(proc[p])]
    /\ UNCHANGED <<clock, fresh, dbVars, providerVars, sentLate>>

MarkSent(p) ==
    LET m == proc[p]
        o == Subject(p)
    IN  /\ At(p, "mark")
        /\ receipts' = [receipts EXCEPT ![o] =
              IF @.claimedAt = m.now /\ @.sentAt = Never
              THEN [@ EXCEPT !.sentAt = clock, !.claimedAt = Never] ELSE @]
        /\ proc' = [proc EXCEPT ![p] = AttemptDone(m)]
        /\ UNCHANGED <<clock, fresh, enabled, providerVars, sentLate>>

\* A database error ends the check, or the attempt once the email was sent.
DatabaseFails(p) ==
    /\ proc[p].pc \in {"start", "loop", "receipt", "claim", "confirm", "mark"}
    /\ proc' = [proc EXCEPT ![p] = IF At(p, "mark") THEN AttemptDone(@) ELSE IdleProcessor]
    /\ UNCHANGED <<clock, fresh, dbVars, providerVars, sentLate>>

\* The process dies, or is stopped, and another takes its place.
Restart(p) ==
    /\ ~At(p, "idle")
    /\ proc' = [proc EXCEPT ![p] = IdleProcessor]
    /\ UNCHANGED <<clock, fresh, dbVars, providerVars, sentLate>>

\* The admin's switch.
SaveEnabled ==
    /\ enabled' = ~enabled
    /\ proc' = [p \in Processes |->
                    [proc[p] EXCEPT !.inHand = enabled /\ proc[p].pc \in {"go", "send"}]]
    /\ UNCHANGED <<clock, fresh, receipts, providerVars, sentLate>>

\* What the monitor of a process shows.
StatusChanges(p) ==
    /\ \E shown \in SUBSET Orders : fresh' = [fresh EXCEPT ![p] = shown]
    /\ UNCHANGED <<clock, proc, dbVars, providerVars, sentLate>>

Tick ==
    /\ clock < MaxTime
    /\ \A p \in Processes : proc[p].order # {} => clock < proc[p].now + SendDelay
    /\ clock' = clock + 1
    /\ UNCHANGED <<fresh, proc, dbVars, providerVars, sentLate>>

ProcessorStep(p) ==
    \/ Check(p)
    \/ Start(p)
    \/ LoopReads(p)
    \/ NextOrder(p)
    \/ WriteReceipt(p)
    \/ Claim(p)
    \/ ConfirmReads(p)
    \/ Go(p)
    \/ SendConfirmed(p)
    \/ SendLost(p)
    \/ SendRefused(p)
    \/ MarkSent(p)
    \/ DatabaseFails(p)
    \/ Restart(p)

Next ==
    \/ \E p \in Processes : ProcessorStep(p) \/ StatusChanges(p)
    \/ SaveEnabled
    \/ Tick

Spec == Init /\ [][Next]_vars

-----------------------------------------------------------------------------
(***************************************************************************)
(* Properties                                                              *)
(***************************************************************************)

\* "One email per B&D order ID": whatever is lost, retried, restarted or sent by two
\* processes at a time, no call is emailed twice.
OneEmailPerOrder == \A o \in Orders : delivered[o] <= 1

\* "A send already in progress when OFF is saved may still arrive", and no other: once
\* the switch is off, only an email that was past its last look at the switch is sent.
OffStopsEmails == ~sentLate
=============================================================================
