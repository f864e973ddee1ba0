# Speedy Sweeties backend: TLA+ models, checks and proofs

The repository is an Express and Prisma backend for a delivery service: customers'
orders are entered by dispatchers (or by the app, the website and ChatGPT), sent to
drivers automatically or by hand, picked up against a digital receipt and delivered.
Around this core run an alert for orders nobody dispatches, a monitor of another
company's (B&D) calls, 90-day text messages, a loyalty program, a privacy subsystem,
and the web app the dispatchers work in. The server is single-threaded Node over
PostgreSQL at READ COMMITTED; two instances overlap during a deploy. Almost every
handler reads, awaits and then writes, so the hard part is what happens at the awaits.

Source paths below are relative to `src/src/` unless they start with `src/`, `docs/`,
`tests/`, `prisma/` or `speedy-dispatcher/`; `PROJECT.json` maps every definition to
its lines.

## 1. Inventory

Each entry: state; operations; what it touches; what is hard; what makes it correct.

**Order lifecycle** (`controllers/order*.ts`, `driverAction`, `orderAssignment`,
`receipt`, `services/orderStateTransition.service.ts`). State: `Order` rows (status,
driver, dispatch attribution, stage timestamps), `DigitalReceipt`,
`OrderOperationalEvent`. Operations: create (with automatic dispatch), create
synthetic, assign, unassign, driver action, receipt by driver or staff, cancel,
edit. Hard: each is a read, a policy decision and a conditional write, and the
conditions differ (status and driver, status only, or the id alone); an ASSIGNED
event and a loyalty credit follow the commit and are lost by a crash. Correct:
committed rows follow the status matrix, timestamps agree with the status and run
forwards, no pickup without a receipt, finished rows stay as they are.

**Driver allocation** (`services/autoDispatchPickupPlan.service.ts`, the transaction
of `orderAssignment`, `changeStaff` in `staff.controller.ts`). State: row locks of
`Order` and `User`. Hard: three kinds of transactions take two or three row locks.
Correct: no deadlock, Rob's limit holds, nobody is assigned who is offline or without
access, nobody loses access with unfinished deliveries.

**Loyalty** (`services/loyalty.service.ts`). State: the loyalty columns of `Customer`;
the customer of an `Order` and the note on its free delivery. Called by order creation
(redeem), delivery (credit) and the customer page (month reset); an edit moves an order
to the customer of another phone or e-mail and replaces its notes. Hard: concurrent calls
of one customer, a month that ends while a call waits for the row lock, an edit between
the read of a delivery and its credit. Correct: the balance is what was earned and not
used, what was earned was delivered, what was used was used up by an order.

**Edit pauses and dispatch timing** (`services/orderEditPause.service.ts`,
`services/dispatchTiming.ts`, the SQL of migration `20261021220000`). State:
`OrderEditPause` rows with leases. Hard: a browser's start, heartbeat and stop are
lost and overtake each other; two implementations of one interval sum. Correct:
closed sessions stay closed, no time is credited that no editor was heard in, both
sums agree.

**Undispatched alerts** (`services/undispatchedOrderAlert.service.ts`). State:
`undispatchedAlertClaimedAt/SentAt`. Reads edit pauses through the SQL function. Hard:
overlapping instances, crashes with a claim, an e-mail accepted whose answer is lost.
Correct: one e-mail at most, exclusive claims, and an overdue order is alerted in the
end.

**Staff accounts, sessions, presence** (`staff`, `auth`, `adminDriver`,
`driverPresence` controllers, `middleware/auth.middleware.ts`). State: `User` rows with
`authVersion` and `staffRevision`, JWTs nobody can take back. Hard: a bcrypt
comparison or an await between reading and writing an account. Correct: no session
outlives a change of access, an edit is of the version shown, a temporary session
changes the password once.

**Retention SMS** (`services/retentionSms.service.ts`, `jobs/retention90.job.ts`,
`routes/retentionSms.routes.ts`). State: `RetentionMessage`, the recipient row in
`SystemSetting`. Hard: overlapping runs that die, STOP against a send, late and
repeated callbacks, profiles sharing a phone. Correct: a message is submitted at most
once, ninety days apart, never newly after a STOP; reports only advance.

**B&D monitor, waiting history, e-mail alerts** (`integrations/bnd/monitor.ts`,
`services/bndWaitingHistory.service.ts`, `services/bndEmailAlerts.service.ts`). State:
the polling machine of each process; `BndMonitorCheck`/`BndWaitingPeriod`;
`BndEmailAlert`. The monitor feeds the other two. Hard: back-off, sessions and
closing hours; lists answered late; lost snapshots; a switch turned off during a send.
Correct: what is shown as fresh was waiting, delays are kept, periods never overlap
nor charge gaps, one e-mail per call.

**B&D opening hours** (`integrations/bnd/hours.ts`, `schedule.ts`,
`speedy-dispatcher/src/bndStatusPolling.ts`). State: the server's copy of a public
feed, saved in `SystemSetting`; a page's copy of that. Operations: the refresh at
midnight with retries, the start from what is saved, the page's refresh and poll.
Hard: a holiday's hours that must not outlive the day, an answer read before midnight
and applied after it. Correct: the schedule is one that B&D published for that day.

**Privacy requests** (`services/privacyDeletion.service.ts`, `privacyIntakeGrant.ts`,
`privacyDelivery.service.ts`). State: one-time codes, the credentials they enrol, the
deletion request. Hard: a code's sending and checking happen outside the transactions
that create and consume it. Correct: a code is compared five times at most, one code
and one credential are usable, nothing works after the erasure.

**Privacy recovery journal** (`services/privacyRecovery*.ts`). State: the request rows
in a database that can be restored from an older backup, and a journal in S3 that only
grows by conditional PUTs. Operations: transition (INTENT, database commit, COMMIT),
resolve, restore, reconcile, open, seal, start a successor journal. Hard: a crash at
any step; a PUT whose answer is lost and that arrives after its sender gave up.
Correct: what was decided is never undone, by whatever crash or restore; the served
database agrees with the decisions.

**Duplicate order guard** (`middleware/orderDuplicateGuard.ts`). State: a reservation
row per fingerprint and window. Hard: a slow request outlives its window and releases
by key, after any error, also one that follows the commit of the order. Correct: one
order per window, as long as the client was told of no error and no request outlived its
window; without these conditions the code does not give it.

**Synthetic budget** (`services/syntheticOrderSafety.service.ts`). State: one
`SystemSetting` row under an advisory lock. Correct: no more orders are committed and no
more e-mails claimed than the profile was enrolled with, and none after it closed.

**Assignment pushes** (`services/driverAssignmentNotification.service.ts`). State:
deferred retries in memory, the driver's token. Correct: no push after stop, only a
refused token is cleared.

**Staff session log** (`services/staffSessionLog.service.ts`). State: a bounded buffer
in memory and its flush. Correct: an event is saved, buffered or was evicted from a
full buffer; the buffer drains.

**Pickup stores: hours and routing** (`services/pickupLocationHours.service.ts`,
`pickupStoreRouting.service.ts`). State: the weekly claim of a paid refresh; pure
functions from timetables and maps to a verdict and a route. Hard: boundary minutes,
periods over midnight and the week's end; two streamed winners whose result must not
depend on the stream's order. Correct: one paid call a week, a store is offered when
its hours say it stays open, the route is the one the rules single out.

**The shop's business hours** (`services/businessHours.service.ts`,
`businessHoursSchedule.ts`). State: the claimed day and the saved schedule. Correct:
one paid call per slot; open and next opening are what the saved hours say.

**Dispatcher boards** (`services/dispatcherStandards.service.ts`,
`controllers/dispatcherPinboard.controller.ts`, `routes/deliveryCheckIn.routes.ts`).
State: a versioned list of standards, a versioned note, a customer's help request.
Correct: no save or repeated request undoes a change its sender had not seen.

**Browser: live orders and alarm** (`speedy-dispatcher/src/App.tsx`,
`incomingOrderAlarm.ts`, with `controllers/orderList.controller.ts`). State: the
requests in flight, the board, the alarm's seen and pending orders, the session.
Operations: the five-second check, page by page; a foreground fetch after an
operation; login and logout; edit pauses; acknowledge, alarm on and off. Hard: checks
supersede each other, answers come late, pages are read at different moments.
Correct: the board never goes back, an order alerts once, and every active order is
noticed.

**Website: order form** (`src/website/src/js/order-form.js`, `address-autocomplete.js`,
`human-verification.js`, and the route of `routes/orders.ts` with
`middleware/websiteVerification.ts` and `createOrder`). State: the page's address
fields, the address that was checked, the verification's token, whether an order is
unconfirmed; the requests on the server. Operations: type, autofill, choose a
suggestion, solve and expire a verification, submit, the answers, reload; the route's
steps. Hard: three awaited answers while the customer types, timers run and the route
goes on after the page gave up. Correct: no second order, one verification per order,
an order goes to the confirmed address the form shows.

**Website: order tracking** (`src/website/src/js/tracking.js`). State: the links of a
browser's orders in its storage, each tab's copy of them, the order it follows and its
request. Hard: tabs that overwrite each other's storage, a storage that refuses
writes, answers for an order no longer selected. Correct: the followed order is asked
for until it ends, its status does not go back, a forgotten order is not written back.

**Not modelled.** Product web verification (text rules over fetched pages), pickup
location maintenance (one-off tools run by hand), customers and catalog (single-row
reads and writes), address lookup and geocoding (text rules around external calls),
AI drafts and ChatGPT ordering (stateless text around a language model), the server
shell (wiring and configuration), reports and listings (read only), and most of the
browser client: forms, settings, reports and layout. The backend models take what
forms send as inputs in any order.

## 2. Modules

| Module | Models | State and actions |
|---|---|---|
| `OrderPolicy` | `orderStateTransition.service.ts`, `dispatchAttribution.ts` | constant operators: the status matrix and the columns a status write sets |
| `OrderStatusSpec` | the same service, as a promise | abstract machine: an order's status, driver and receipt change only along the matrix |
| `OrderLifecycle` | the handlers above | `order`, `receipt`, `req` (handlers in flight with their stale `snap`); one action per awaited statement or transaction |
| `AllocationLocks` | the transactions opened up | `lock`, `txn`; one action per SQL statement |
| `Loyalty` | `loyalty.service.ts` and its callers | `customer`, `order`, `call`, `month`; one action per locked transaction |
| `OrderEditPause` | `updateOrderEditPause`; `dispatchTiming.ts` and the SQL function | `pause`, `call` (a request with the time it arrived), `order` as timing reads it; the waiting time by a sweep and by merged intervals |
| `UndispatchedAlerts` | the alert monitor | extends `OrderEditPause` and composes with it; `alert`, `worker`, provider keys and inbox |
| `StaffAccounts` | accounts, tokens, presence | `account`, growing sets of signed tokens, `req` |
| `RetentionSms` | the cron run, STOP, callbacks | `message`, `recipient`, `holder` (the recipient's lock), `job`, `callback` |
| `BndObserver` | what the history needs of a monitor | abstract: ask, read, apply |
| `BndMonitor` | `monitor.ts` | implements `BndObserver` |
| `BndWaitingHistory` | the snapshot transaction | extends `BndObserver` |
| `BndEmailAlerts` | receipts, claims, provider, switch | what is fresh is any set at any time |
| `BndOpening` | `hours.ts`, `schedule.ts`, the page's copy | `site` (what B&D publishes), `provider`, `browser` |
| `DeletionPolicy` | the transitions of a deletion request | constant operators with each handler's guard |
| `DecisionLedger` | the privacy subsystem, as a promise | abstract machine: `decision`, taken once, never undone |
| `PrivacyJournal` | database and protected journal | `request`, `backup`, `puts` under way, `tx` (the holder of the lock), what `inspect()` folds the journal into; implements `DecisionLedger` |
| `PrivacyRequests` | codes, credentials, submissions | `row`, `check` (verifications in flight), `phoneCode` (the provider's) |
| `DuplicateGuard`, `SyntheticPolicy`, `AssignmentPush`, `SessionLog`, `HoursRefresh` | one service each | small machines of one hazard |
| `DispatcherBoards` | standards, pinboard, check-in help | `board`, `edit`, `note`, `help`, what each browser shows |
| `BusinessHours` | the daily claim and the schedule | `attempt`, `schedule`, `refresh` of each process |
| `StoreHours`, `StoreRouting` | two algorithms of `pickupStoreRouting` | a question, the steps of the computation, the answer; against a definition by sets of open minutes, and by the set of all routes |
| `LiveOrders` | the live board of one browser | `slot` (requests in flight), `latest`, `board`, `alarm`, `editing`, `token` |
| `WebOrder` | the website's order form and the public order route | `page`, `widget` (the verification), `post` (requests on the server), `reserved` |
| `OrderTracking` | `tracking.js` | `storage`, `tab` (its records, the order it follows, its requests); each handler begins with `Expired`, as the code's does with `expire()` |
| `Services` | the services beside the orders, on one clock | composes `StaffAccounts`, `DuplicateGuard`, `SyntheticPolicy`, `AssignmentPush`, `HoursRefresh`, `DispatcherBoards`, `BusinessHours`, `StoreHours`, `StoreRouting`; states what they promise together |
| `Background` | the check of the alerts, the session log and the live board | extends `UndispatchedAlerts`, composes the other two; states what they promise together |
| `BndCalls` | the monitor, the history and the alerts, on one clock | extends `BndMonitor`, composes the other two; states what they promise together |
| `OrderLifecycleProofs`, `AllocationProofs`, `BackgroundProofs` (with `RetentionSms`), `ServiceProofs` (with `Loyalty`), `BndProofs`, `PrivacyProofs`, `WebOrderProofs` | | theorems, section 6 |
| `MCOrderLifecycle`, `MCAlertsAndSms`, `MCBackground`, `MCBndCalls`, `MCCustomers`, `MCServices` | | instances for TLC: constants, symmetry, bounds |

Conventions. An HTTP handler or a cron run occupies a slot (`Requests`, `Calls`,
`Txns`, `Jobs`, `Workers`, `Processes`, `Runs`); its `pc` names the next awaited step
and its record holds what it read or the time it took, which may be stale by the time
of the write. A `Stop`, `Crash`, `Die` or `Fail` action ends a handler between any two
steps. SQL NULL is a value outside the set (`NoDriver`, time 0 or -1). An action whose
name ends in `_Something` is a mutant: what a plausible mistake would make of the
action it is named after. It is not part of `Next`.

How they fit. `OrderLifecycle` takes each transaction as one action; `AllocationLocks`
opens those transactions, including their waits, and shows that they end without a
deadlock and decide on rows nobody can change meanwhile. `UndispatchedAlerts` runs
over `OrderEditPause`. `BndWaitingHistory` runs over `BndObserver`, and
section 6 proves that `BndMonitor` implements it, so nothing is assumed of the
monitor that it does not do. `PrivacyRequests` takes a decision as one step, which the
refinement of `DecisionLedger` by `PrivacyJournal` justifies.

`MCAlertsAndSms`, `MCBackground`, `MCBndCalls`, `MCCustomers` (the privacy requests, their
journal and the website; its `PrivacySpec` has the first two only) and `MCServices` are sums: a
variable, chosen at the start, says which of several machines a behaviour runs. `MCServices`
extends `Services` with the loyalty ledger, `MCBndCalls` extends
`BndCalls` and `BndOpening`, whose hours rest at their beginning while another machine
runs; `MCCustomers` extends `PrivacyJournal`, `PrivacyRequests` and
`WebOrder`, which rests in an initial state while another machine runs; `Services`, `BndCalls` and `Background` leave their machines side by side,
and their properties are the ones section 6 proves. The machines of one sum share no state that one writes and another reads back,
so the sum loses no interaction; what passes between them (calls seen by the monitor,
a decision, an order's creation) is an input that the reading machine takes in any
order.

## 3. Runs

| Run | Question | What it shows |
|---|---|---|
| `lifecycle_concurrency` | two handlers, two drivers, one order, a moving clock | every interleaving of their statements follows `OrderStatusSpec`, keeps receipts before pickup, timestamps with their status and in order although handlers write times and snapshots they took earlier, one credit at most, finished rows frozen (all but the edited fields) |
| `final_order_edited` | "Delivered or cancelled orders cannot be edited" | **violated**: an edit that read the order before it ended commits after it |
| `allocation_locks` | two transactions over two orders and two drivers | no deadlock; counts, eligibility and access hold at the commit |
| `edits_alerts_sms` | edit sessions of two editors; two alerting instances with pauses changing under them; two SMS runs, STOP and callbacks | closed sessions stay closed and earn no time for a gap, both sums agree; one e-mail at most, even after the provider forgot the first one's key; one submission ninety days apart, STOP respected, reports monotone |
| `background` | alerts, session log and live board with fairness | the owner hears of an overdue order although claims are lost in crashes; the buffer loses only what it evicts, and drains; every active order is noticed, the board never goes back, no order alerts twice |
| `alarm_silenced` | "Sound repeats ... until Acknowledge, Alarm OFF, logout, or all alerted orders leave" | **violated** by `LiveOrders`: see below |
| `bnd_calls` | each of the four B&D machines | fresh calls were waiting, delays are kept, periods are disjoint and observed, one e-mail per call, the schedule is one B&D published for that day; the monitor implements `BndObserver` |
| `bnd_reopened` | "Delayed/duplicate snapshots cannot reopen old orders" | **violated**: see below |
| `customers` | two requests of one customer through crashes, restores and successor journals; codes and credentials; the website's form and its tracking | no order is sent twice or to an address that was not confirmed; tracked orders are followed and forgotten ones stay forgotten; the journal implements `DecisionLedger`; the served database agrees with the decisions; erased data stays erased; codes and credentials are limited and end with the erasure |
| `privacy_recovered` | "Only one exact matching before or after image" | **violated**: see below |
| `privacy_newest` | "Keep only the newest challenge usable" | **violated**: see below |
| `services` | ten small machines | the loyalty ledger; sessions and edits of accounts; windows, claims and budgets; boards; store hours, routes and the shop's hours; pushes |

### Disagreements between the code and what the repository says

Checked as expected violations:

1. `final_order_edited`. `order.controller.ts:995` and
   `data/dispatcherHelpKnowledge.ts:181` say that finished orders cannot be edited;
   the handler checks once, geocodes the address, and updates by id (1128).
2. `alarm_silenced`. While an order is edited the board is not refreshed, but each
   answer about the edit pause hands the old board to the alarm
   (`speedy-dispatcher/src/App.tsx:759-772`), which drops the alert of an order that
   has arrived since; it was seen, so it never alerts again.
   `speedy-dispatcher/README.md:15` and `:23` exclude that.
3. `bnd_reopened`. A snapshot is stamped when its answer is *applied*
   (`monitor.ts:192`), not when it was asked for. Between two processes an older list
   can bear the later stamp and reopen a call that the other process recorded as
   claimed. `tests/bndWaitingHistory.database.test.js:52` and `docs/bnd-alerts.md:31`
   exclude that.
4. `privacy_recovered`. The image before a submission is taken under the id of the new
   request (`privacyDeletion.service.ts:100`), but a customer with an active request
   changes that one. When the database rolls back, neither recorded image matches and
   the pending intent cannot be resolved by the evidence `docs/privacy-s3-storage.md:782`
   describes.
5. `privacy_newest`. Of two challenges whose sends overlap, the older can be marked
   usable last and use up the newer (`privacyDeletion.service.ts:400`, against the
   comment at 396).

In the models, without a run of their own:

6. A manual assignment computes `dispatchedAt` from the order read before its
   transaction (`orderAssignment.controller.ts:276`), so a stale one puts an older
   dispatch time back; `docs/order-status-state-machine.md` says that retries
   preserve an existing timestamp.
7. A loyalty credit whose month was taken before midnight and whose lock is granted
   after it resets the progress of the new month (`loyalty.service.ts:125`).
8. A heartbeat in flight puts a driver who was signed out online again
   (`driverPresence.controller.ts:272`); `data/dispatcherHelpKnowledge.ts:144` says
   the driver goes offline.
9. A retention run checks the sending window once, at its start
   (`retentionSms.service.ts:64`), so a long run sends after the window closed, while
   `docs/retention-sms.md:11` gives the window for sends.
10. The pages of the live list are read at different moments
    (`speedy-dispatcher/src/App.tsx:2862`): an order that moves to an earlier page while
    the quiet first list is read is missed by it and rings with the next list, while the
    comment at 2859 says that such an order is never a false arrival.
11. `docs/pickup-route-sequential-routing.md` describes automatic dispatch by the store
    plan; `autoDispatchPickupPlan.service.ts:165-170` does not use it.
12. An answer of the B&D feed that closes one day, read before midnight and applied
    after it, closes the next (`integrations/bnd/hours.ts`), and a page may keep it
    until the midnight after; `docs/bnd-alerts.md` says that no daily override carries
    into another date.
13. Two processes that refresh the shop's hours on both sides of the slot's start may
    overwrite a newer schedule with an older one (`businessHours.service.ts`). No
    document excludes it.

## 4. Bounds

Every bound is a constant of a module or a `CONSTRAINT` of an MC module.

- Two handlers in flight: each hazard listed is a race of two, and a handler that
  ended frees its slot for a third. Two drivers, so that an order changes hands.
- `lifecycle_concurrency`: `MCOrderLifecycle!Bounded` follows two drivers within one
  reading of the clock, or one driver for as long as the clock runs. `MaxTime` 2 is
  enough for a stale time and a fresh one.
- `allocation_locks`: Rob and one other driver, Rob's limit 1, so that the second of
  two orders meets it.
- `edits_alerts_sms`. Pauses need start, expiry and a later renewal: lease 2, clock to
  4 (`PausesEnd`). `PausesBounded`: two editors race for one session, or one editor has two
  sessions; the pauses of an order interact only in the sums, which two sessions overlap in.
  Alerts: threshold 2, stale claims after 2, keys and orders forgotten after 4 (both are
  24 hours in the code), clock to 7 (`MaxTime`). `AlertsBounded` keeps one pause request,
  session and editor at a time, in flight beside one instance of the check and committed between the
  steps of two, and lets sessions begin and end until the alert is due (a request reads nothing
  that a check writes, and may be answered at once); a plain order is followed until its key is forgotten. One order:
  claims of different orders share nothing but the candidate limit (section 7). SMS:
  the quiet period 1, lapse of consent 1; `SmsBounded` has overlapping runs while the
  provider is silent, or one run with its delivery reports, since a report is written only
  by callbacks and by the run that submitted the message. The `VIEW` leaves out
  `received` and `stopped` for alerts, which only record there.
- `background`: alerts to clock 5 with two instances; a buffer of 2 with three events and
  two interruptions; a board of two request slots and two orders of which every page
  holds one, with one interference (a pause, the alarm off, a refused session, or an operation) at a
  time. `alarm_silenced` has both orders on one page and no operations.
- `bnd_calls`: the monitor to 10 ticks with poll 2, back-off to 4, Retry-After 3 or 6 and
  one closed tick; the history to 5 ticks with two processes; e-mails to 4 ticks with a
  key window longer than the retry window plus the send delay, as 23 of 24 hours are;
  opening hours over three days of four ticks with two failures, restarts or changes.
- `customers`: journals of 8 entries (two transitions of each request) without a new order of
  the customer or 6 with one,
  two restores or successors, two PUTs under way; two challenges and two verifications. The form
  sends two orders from one page, or one with a reload; two verifications, an address that can be
  confirmed and one that cannot. Orders are tracked in five kinds of visit, over one instance with
  room for two of three orders: a tab that follows two orders while other tabs change the
  storage (`following`); one whose storage fills up or is switched off (`failing`); one that
  has to drop the oldest of three orders (`evicting`); one with two requests under way
  (`overlapping`); and two tabs (`side by side`). A visit leaves out what the others have; `TrackingIsSound` has no such limits.
  `privacy_recovered` and `privacy_newest` need less.
- `services`: a reward is earned and used by `PerReward` 2 and three orders of two customers, `MaxMonth` 2
  gives one reset; `EditsBounded` has one order edited, at any time, with one call at most
  in flight beside the edit; `MaxVersion` 2 allows a change of access before and after a read, and
  `TokensBounded` three tokens signed, of sessions and of password changes; the
  guard's window is 2 of 3 ticks, so that a slow submission outlives it, and three submissions let one
  release another's row; the synthetic budget is 2 orders and 2 e-mails for three calls; three tokens, so that one is refused and replaced; a refresh week of
  3 in 6 ticks, two claims, with one edit; boards
  of one entry and two versions; store hours are all one- or two-period timetables of a week of two
  days of four minutes, with dated ones, overrides and every arrival of a week; routing maps place up to
  four stores on a line, with cut legs and stores that are shut on arrival or not open yet, at most two stops, a shortlist of one and two
  more; the shop runs 10 minutes of such weeks. `StoresAreSound` has none of these bounds.
- `SYMMETRY` is over slots, interchangeable actors and rows, never over ordered values, and
  is not used with liveness. The machines of `services` share the names of their slots, of which
  only one machine's are in use, so that a few permutations serve them all.

Deadlock is checked except where the system may stop, with the clock or the placed
orders at their bound and nothing in flight, or after an answered question: `background`,
`alarm_silenced`, `bnd_*`, `customers`, `privacy_*` and `services`.

## 5. Fairness

Only the machines of `background` and `alarm_silenced` have any.

*Alerts.* Weak fairness of the clock, of `RunCheck` (a `setInterval`), and of the steps
of a check: awaited calls end, by an answer or by their timeout. Strong fairness of a
send that delivers: the check asks the provider at every poll, and it may fail
arbitrarily often but not for ever; without this nothing can be promised. The update
that marks an order may fail for ever, and a send under a key the provider knows may be
refused for ever (its text has the minutes waited, so it differs from the first); the
property is therefore about the e-mail, not about the mark. Crashes are not fair and may
happen at any time that leaves the clock room for the claim to grow stale; a restarted
instance polls again. One timing assumption is not fairness: `CheckTime`, the time from
the start of a check to its sends, plus the maximal age of an order is less than the
threshold plus the time a key is kept. With the defaults that is a check of less than
five minutes; 25 candidates with a timeout of ten seconds take a little over four.

*Session log.* Weak fairness of a flush (a timer) and of its write, which ends. The
database interrupts a bounded number of times, so it answers again.

*Live board.* Weak fairness of the five-second check and of the answers to operations
and refused sessions. Strong fairness of each page's reading, of its arrival and of a list
that is refused for an expired session: a request may fail arbitrarily often, not for
ever. Operations and logins are finite in number. The property excuses orders placed
while the dispatcher is signed out or the refresh is paused.

No other liveness is claimed: handlers may crash and users may leave.

## 6. Proofs

All for arbitrary constants subject to the module's named assumption (NULLs are
outside their sets; thresholds are positive; sets whose members are counted are finite).

- `OrderLifecycleProofs`. `TypeCorrect`: `TypeOK` is inductive. `RowsCoherent` and
  `StagesInOrder`: status, timestamps and attribution agree, timestamps run
  forwards. These are not inductive over committed rows
  alone, since a handler writes columns it computed from an earlier read: `CoherenceInv`
  says the same of every `snap` in flight, and that a snapshot's time is not ahead of
  the clock. One lemma per way of writing a row, then one step per action.
  `LifecycleRefinement`: with `RequestInv` (a driver action
  about to write was allowed by the policy for its snapshot; receipts are never
  removed, so what it knew of the receipt still holds), every action maps to a step of
  `OrderStatusSpec` or a stutter. `ReceiptsPrecedePickup`, `DriversKeepAccess` are
  proved of the abstract machine (`MatrixSafety`) and carried over by the refinement;
  `FinalRowsStayFrozen` and `LoyaltyOnce` follow from its steps: a final status has no
  outgoing edge.
- `AllocationProofs`. `NoAllocationDeadlock`: no nonempty set of transactions each
  waits for a lock held within it. `LockRules` says which locks a transaction at each
  `pc` may hold; `LocksInOrder` that what it wants ranks above all it holds (order, then
  Rob, then another driver). Along a chain of waiting transactions the rank of the
  wanted row grows, and there are only three ranks. `AllocationTypes` comes with the
  induction.
  `UnfinishedDriversKeepAccess`, `AssignmentsReachOnlineDrivers`,
  `RobStaysWithinLimit`, from `SafeInv`: a transaction that has decided is `Secured` - the
  lock it holds on the driver's row keeps the account and the number of unfinished
  deliveries as it read them until it commits. The counts need `Orders` to be finite.
- `BackgroundProofs`. `PauseInv` is about the pauses alone: a request in flight names a session
  that asked (`RequestsNamed`), a row begins when its session was first heard (`RowsBegun`),
  and every moment a row credits lies within a lease of a heartbeat (`LeasesHeard`). It gives
  `PausesAreKept`. `DurationsAgree`: the sweep of `dispatchTiming.ts` and the SQL function deduct
  the same time from any finite table. What the sweep holds is the size of the union of the
  ranges it has passed and where the last of them ends (`Swept`); they all began no later than the
  next one, so they cover all of it up to the cursor (`SweepsOn`). A list in that order exists
  (`SortedListExists`), and the fold is `Swept`, the only solution of its
  equation (`FoldSweeps`): inductions over the size of a set, by its least
  counterexample. `AlertInv` adds the check: an instance
  that holds candidates took each one when it was due and is still in its time
  (`WorkersDue`), and the provider took the key of an order that was mailed when the order was
  old enough for it (`KeysTaken`). `AlertedOnce` follows: a second e-mail would need that key
  forgotten, and by then no check that is in its time still has the order as a candidate. `InTime` is an
  assumption on the speed of a check, and must cover every step of a check that still has candidates
  to send, the updates between two sends too.
  `AttemptedOnce` and `StopAndEvidenceHold` from `RetentionInv`. A run
  between its claim and its record holds the row (`ClaimsHeld`), a row is submitted only
  through a claim (`SentClaimed`); a run about to claim holds the lock of the recipient, so
  the last attempt it read there is still the last one, and that is no earlier than the attempt of
  any row of this phone (`PhoneHeld`). `IdsNamed`: a provider's identifier that a row, a run or a
  callback bears is that of a submission of that row. `RetentionTypes` likewise.
  `LogLosesNothing`: of the buffer only its set of keys matters, and `Put` and `Drop` take from it
  only the key they evict or delete. `BoardStepsHold` from `BoardInv`: neither the board nor what any
  request was answered is ahead of the server, and what the latest request was answered is
  not behind the board (`Ahead`), since it was sent after the board was last replaced and
  only the latest request may replace it.
- `ServiceProofs`, one invariant for each machine of `Services`, then its theorems.
  `LimitsAreKept`: `GuardInv` (a submission that was let in holds its window, until it is released
  after an error of its own, or by one that outlived its row), `SyntheticInv` (orders and e-mails are counted
  under the lock, within the limits, and none is spent after the profile closed), `RefreshInv` (a store was last checked no earlier
  than its last paid call, but for a run that outlived an administrator's edit) and `ShopInv`.
  `PushesAreSound` from `PushInv`: a notice was sent once when its retry is decided,
  and what was refused is a dead token. `NoSaveIsBlind` from `BoardsInv`: a save about to be
  written read the version its editor was shown, and versions count the changes. `AccountsAreCurrent` from `StaffInv`: `authVersion` is the number of changes
  of access so far, a session or reset token `Vouches` for the account as it was at its
  version, and what a request read is either the row or an earlier version of it
  (`RequestHolds`, `Later`). A bcrypt comparison may take as long as it likes: the write that follows is
  conditional on the version, which tells whether the row is still the one that was compared.
  Before them come the theorems of the loyalty ledger. `LedgerBalances`: balance = earned - used, never negative, flag
  and progress right. `LedgerInv` adds that every call in flight names a real customer
  and order. `LoyaltyTypes` likewise.
  `RewardsAreAccounted`: `PerReward` times the rewards earned, plus the
  progress, is at most the delivered app orders credited to the customer, and every reward
  used was used up by one order of theirs, which tells the driver so until an edit replaces its notes. `RewardInv` adds
  `OneCall`: the order of a call that is to create or credit it is its own, and in the state
  the call left it in; an edit may move it to another customer meanwhile, but leaves what is
  counted (`EditKeeps`).
  `StoresAreSound`, for timetables, maps and weeks of any size, has three parts.
  *Store hours* (`HoursInv`): what a timetable says of an arrival is decided by the first of its spans that
  holds it (`SaysOf`, `FirstDecides`), and that is what the set of open minutes says, but for an arrival
  that two spans hold. A weekly span is laid out around the arrival's week, so one that
  runs over the week's end is met in either of two places.
  *Routing* (`RoutingInv`): routes of a map are in a strict total order - time, then the first stop at
  which they part (`RoutesOrdered`), and likewise with more Preferred stores first
  (`PreferenceOrdered`). A pass keeps the winner of the routes it has met (`OneWins`,
  `OneLeads`), so that in whatever order they are streamed the last winner is the only
  one there is (`Settled`, `BestChosen`). A shortlist with room for them misses no route that
  could rival the winner (`NoneMissed`). `FallbackLast` speaks of stores that the driver can drive to, since
  the code drops the others before it decides that a phase has none.
  *The shop* (`SavedInv`): what is saved was read before now and answered then. The next
  opening is the least start after now of an interval (`NextFollows`), and an interval
  starts between a minute nothing covers and the next one that is covered (`StartsBetween`).
  Least elements exist because `<` is well-founded on `Nat` (`LeastExists`). The assumptions are those on what Google
  publishes: a weekly period has its minutes within the week, a leg takes no negative
  time; TLC evaluates them on the instances.
- `BndProofs`. `MonitorInv`: a request is within its time, its answer was read since it began,
  what a monitor shows was waiting one request before it was applied at the latest; and a monitor that
  asks, or holds a session to ask with, has waited out its Retry-After and its last rejected
  login (`Keeps`). `FreshCallsWait` and `LoginsKeepDistance` follow, and so does
  `MonitorImplementsObserver`: `SeenSteps` maps each step of a monitor - an expired session
  and the login after it, a failure, a pause, a stop and a restart included - to a step of `BndObserver`
  or a stutter. `MonitorTypes` comes with the induction. `EmailsAreSound` from `EmailInv`: a
  processor took the call at hand less than `SendDelay` ago, from its claim on the receipt was written
  within `RetryWindow` of that, and a key is not older than its receipt; since both times
  together are less than `KeyWindow`, the provider still knows the key of a call that it has
  delivered. `SendDelay` is an assumption on the speed of a claim and its send. `HistoryIsSound`
  from `HistoryInv`: the invariant is `PeriodsDisjoint` itself with, for each period, the checks that
  last saw and closed it and `Covers`, no gap longer than two polls between its first and last
  observation; one snapshot never begins two periods of a call, since as many periods are created
  as there are new calls (`CreatedOnce`, for which `Orders` is finite). It runs over `BndObserver`, for any
  number of observers. `HoursAreKept` from `OpeningInv`, for any lengths of a day, a week, the
  retry and the requests. Hours held by the server, its file or a page either are to be read
  again within the retry or were confirmed on their own date and ask for nothing before they
  are due (`KeptHours`, `PageKeeps`); not yet due, they then were confirmed since midnight and
  since the opening (`NotDue`). An answer under way is what was published at a moment since its
  request (`AnsweredFor`), and since no request takes longer than a day, one that is read as
  today's is of today or of a closed yesterday (`ParsedAnswer`). `ScheduleOf` says for any
  well-formed hours that the next change is later and nothing changes before it; the nearest
  day ahead exists because `<` is well-founded on `Nat` (`FirstIsLeast`). That a window begins
  before it ends, on its own day, is an assumption on what is published; the code refuses
  any other as a failure (`parseBndHours`).
- `PrivacyProofs`. `JournalInv` relates the database, the journal and whatever is under
  way. Every PUT under way is for the key after the journal's last, so of several one lands
  (`PutHolds`); an intent of the present era that nothing has overtaken is `Fresh`: the row it
  was decided on is still the row (it is written, with the lock held, in one transaction, and
  a restore begins a new era); `Announces`: the images of an intent are different unless the
  transition repeats one; while a transaction holds the lock, the intent it wrote is pending, and
  one that reconciles found the journal where it still is (`TxInv`); the rows are as decided except between a restore
  and its reconciliation (`RowsInv`). `RequestsAreServedAsDecided` and `ErasureIsFinal` follow.
  `JournalImplementsLedger`: only the
  commit of a transition in the database and a reviewed successor journal are steps of
  `DecisionLedger`; everything else - a landed, late or lost PUT, an outcome appended or resolved, a
  crash, a restore, its reconciliation - is a stutter of it (`LedgerSteps`).
  `RequestsInv` is about the codes and credentials: what was compared and what is being compared
  is within the attempts the row counts, since `VerifyBegin` counts first (`Counted`, over the cardinality of
  the comparisons under way, hence `Checks` finite); a code that becomes usable leaves no
  other; an erasure used up every row, and no later step takes that back. `IdentityIsSound`
  and `RequestsTypes` follow.
- `WebOrderProofs`. `FormInv`, for any number of pages, verifications and orders. That a form which can be
  submitted has sent nothing that was or can be created (`NoSecondOrder`) is not inductive
  alone: while the form awaits an answer, the last request is the one it awaits and every
  earlier one of this page is over without an order (`PostingInv`); a refusal the form knows is
  only ever given to a request that is over and created nothing (`PostHolds`); and a page whose
  order is not confirmed stays in `editing`, where it submits nothing (`UnconfirmedInv`). `TokensInv`: the
  token at hand is new as long as the form can be submitted, since a known refusal and a new page
  reset it. `ClosureInv`: no request for the hours is pending while a closure is shown, so that
  none asked before it can overwrite it. `FormIsSound` and `WebOrderTypes` follow; that orders go
  where the form shows from `ConfirmedInv`, as the address is compared once more after the hours arrived.
  `TrackingIsSound`, for any number of tabs, orders and requests under way, from `TrackingInv`: a
  tab awaits one request at most, for the order that it follows, and what that was answered
  lies between the status last shown and what the server knows (`OneAwaited`, `NoneAhead`), so a status
  cannot go back; a list of records has one record of an order (`OneEach`), without which
  `savedAt` means nothing. Every handler is `expire` followed by a few of `save`, `choose`, `ask`,
  `render` and `schedule`: `Makes` says of each what it may write - orders that were stored, or
  that the tab has not saved yet, or the one it is asked to remember - and that it raises no
  time. That filtering a list keeps exactly the records it should (`PickedValues`) is a count:
  the ranks of the positions kept are an injection into as many numbers, hence onto them.

Every property of a passing run is stated by a theorem, except what must eventually happen
(`OverdueOrdersAlerted`, `BufferDrains`, `OrdersNoticed`): liveness under fairness rests on `ENABLED`, which
the provers cannot treat, and stays model-checked. None of the modules declares a
RECURSIVE operator.

## 7. Hazards and abstractions

`PROJECT.json` lists every hazard with its line. Two have no property: the sign-out lost to a
heartbeat (`driverPresence.controller.ts:272`), which the code does not prevent, and 25 failing
alerts starving newer ones (`undispatchedOrderAlert.service.ts:92`), which needs more orders
than `CANDIDATE_LIMIT`. Three more cases are noted at a hazard whose properties do not exclude
them, since the code does not and the models reach them: the place written back by a store
refresh (`pickupLocationHours.service.ts:409`), the closed day carried over midnight
(`integrations/bnd/hours.ts:33`, item 12 of section 3) and the order missed between two pages
(`speedy-dispatcher/src/App.tsx:2862`, item 10).
Of a request that was let in before its account changed (`auth.middleware.ts:6`) only the writes
that compare a version are covered; the others act by id.

Abstractions a reader should know of. `LiveOrders` keeps the rows and the count of a page;
the warning for orders not accepted, error banners and driver selections are left out. No
clock change (daylight saving) in `BndOpening`, `BusinessHours` and `StoreHours`. Which driver the
scoring prefers is a choice among the eligible. Fingerprints, signatures and image hashes are
identities of what they are computed from. Item lines, prices and texts are left out. A change of access also clears the driver's push
token and location (`staff.controller.ts:77`, `:134`): `StaffAccounts` has neither, and
`AssignmentPush` clears refused tokens only.

## 8. What is left

In the order we would take it: the order form of the dispatcher app (drafts, customer
lookups answered late); the budget reservation of website verification; alerts with more
orders than `CANDIDATE_LIMIT`.
