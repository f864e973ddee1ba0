---------------------------- MODULE OrderTracking ----------------------------
(***************************************************************************)
(* "Track my order" on the website (website/src/js/tracking.js). The       *)
(* private links of a customer's orders are remembered in the browser's    *)
(* storage for 48 hours; every tab keeps its own copy of them, follows one *)
(* order and asks the API for its status. Tabs share the storage and       *)
(* nothing else: another tab may have remembered, forgotten or expired an  *)
(* order since this one last looked, its storage may be full or switched   *)
(* off, and an answer may come for an order that is no longer selected.    *)
(*                                                                         *)
(* A handler of the page runs at once.  Each reconciles the tab's copy     *)
(* with the storage first (expire), so that every action below begins with *)
(* Expired.  The status of an order is the number of changes it has had.   *)
(***************************************************************************)
EXTENDS Integers, Sequences, FiniteSets

CONSTANTS
    Tabs,
    Tokens,         \* the private links: one for each order
    None,
    Storages,       \* what the storage may allow: everything ("ok"), no new value
                    \* ("full"), or nothing ("off")
    Kept,           \* the number of orders remembered: slice(0, 5)
    LIFETIME,
    MaxTime,        \* bound: the clock
    Final,          \* the terminal status of every order
    MaxAnswers      \* bound: requests of a tab that are not yet answered

ASSUME TrackingAssumption ==
    /\ None \notin Tokens /\ Storages \subseteq {"ok", "full", "off"}
    /\ {Kept, LIFETIME} \subseteq Nat \ {0} /\ Final \in Nat
    /\ MaxTime \in Nat /\ MaxAnswers \in Nat

VARIABLES
    now,
    storage,    \* what the browser stores: the records, newest first
    tab,
    tracked,    \* the status of the server's orders
    wanted      \* history: the orders remembered and not forgotten since

trackingVars == <<now, storage, tab, tracked, wanted>>

NoData == -1
Gone == Final + 1       \* unknown, expired or erased: 404
NotYet == -1

Record == [token : Tokens, savedAt : 0 .. MaxTime]

StatusRequest == [token : Tokens, answer : {NotYet, NoData - 1} \cup 0 .. Gone, isCurrent : BOOLEAN]

Failed == NoData - 1    \* any answer that is not a status, or no answer

Tab ==
    [records : Seq(Record),
     current : Tokens \cup {None},
     lastData : NoData .. Final,
     seen : [Tokens -> NoData .. Final],    \* history: the newest status shown
     requests : SUBSET StatusRequest,             \* isCurrent: of the current generation
     timer : BOOLEAN,
     hidden : BOOLEAN,
     storageAvailable : BOOLEAN,
     lastStorageRaw : Seq(Record)]

TrackingTypeOK ==
    /\ now \in 0 .. MaxTime
    /\ storage \in Seq(Record) /\ Len(storage) <= Kept
    /\ tab \in [Tabs -> Tab]
    /\ tracked \in [Tokens -> NotYet .. Gone]
    /\ wanted \subseteq Tokens

tokens(records) == {records[i].token : i \in DOMAIN records}

isLive(record) == record.savedAt <= now /\ now - record.savedAt < LIFETIME

savedAt(records, k) ==
    CHOOSE s \in 0 .. MaxTime :
        \E i \in DOMAIN records : records[i] = [token |-> k, savedAt |-> s]

\* The members of s at the positions kept, in their order.
Picked(s, kept) ==
    LET rank(i) == Cardinality({j \in kept : j <= i}) IN
    [n \in 1 .. Cardinality(kept) |-> s[CHOOSE i \in kept : rank(i) = n]]

liveOf(records) == Picked(records, {i \in DOMAIN records : isLive(records[i])})

Without(records, k) == Picked(records, {i \in DOMAIN records : records[i].token # k})

First(records) == IF records = <<>> THEN None ELSE records[1].token

Min2(a, b) == IF a < b THEN a ELSE b

-----------------------------------------------------------------------------
(***************************************************************************)
(* What the handlers are made of.  x is a tab with the storage it sees, e  *)
(* what the storage allows at this moment.                                 *)
(***************************************************************************)
parseRecords(raw) == liveOf(raw)

save(x, e) ==
    CASE e = "off" ->
            [x EXCEPT !.t.storageAvailable = FALSE]
      [] e # "off" /\ (e = "ok" \/ x.t.records \in {x.storage, <<>>}) ->
            [t |-> [x.t EXCEPT !.storageAvailable = TRUE, !.lastStorageRaw = x.t.records],
             storage |-> x.t.records]
      [] OTHER ->
            [x EXCEPT !.t.storageAvailable = FALSE, !.t.lastStorageRaw = x.storage]

\* Mutant: what is stored replaces the tab's copy.
reconciled_Replaced(raw, mine) == raw

\* The earlier of the times two copies of a record were saved at.
reconciled(raw, mine) ==
    [i \in DOMAIN raw |->
        IF raw[i].token \in tokens(mine)
        THEN [raw[i] EXCEPT !.savedAt = Min2(@, savedAt(mine, raw[i].token))]
        ELSE raw[i]]

incoming(t, raw, e) ==
    IF e # "off" /\ (t.storageAvailable \/ raw # t.lastStorageRaw)
    THEN reconciled(parseRecords(raw), t.records)
    ELSE t.records

isBusy(t) == \E q \in t.requests : q.isCurrent

cancel(t) == [t EXCEPT !.timer = FALSE, !.requests = {[q EXCEPT !.isCurrent = FALSE] : q \in @}]

schedule(t) == [t EXCEPT !.timer = t.current # None /\ t.lastData # Final /\ ~t.hidden]

\* The rest of refresh, after its expire. Offline, its request is one that fails.
ask(t) ==
    IF t.current = None \/ isBusy(t) \/ t.lastData = Final \/ t.hidden THEN t
    ELSE [t EXCEPT !.timer = FALSE,
                   !.requests = @ \cup {[token |-> t.current, answer |-> NotYet,
                                         isCurrent |-> TRUE]}]

render(t, data) ==
    [t EXCEPT !.lastData = data, !.seen[t.current] = IF data > @ THEN data ELSE @]

\* choose asks for the status at once; the data of a new order come with it.
choose(t, k, data) ==
    LET chosen == [cancel(t) EXCEPT !.current = k, !.lastData = NoData] IN
    ask(IF k # None /\ data # NoData THEN render(chosen, data) ELSE chosen)

\* expire: the tab's copy is reconciled with the storage and the dead records leave
\* both. It returns TRUE when it had to choose another order.
Expired(x, e) ==
    LET retained == liveOf(incoming(x.t, x.storage, e))
        changed == retained # x.t.records
        read == IF e = "off" THEN [x.t EXCEPT !.storageAvailable = FALSE]
                ELSE [x.t EXCEPT !.lastStorageRaw = x.storage]
        kept == [x EXCEPT !.t = [read EXCEPT !.records = retained]]
        saved == IF e # "off" \/ changed THEN save(kept, e) ELSE kept
        lost == \/ x.t.current # None /\ x.t.current \notin tokens(retained)
                \/ x.t.current = None /\ changed /\ retained # <<>>
    IN [x |-> IF lost THEN [saved EXCEPT !.t = choose(@, First(retained), NoData)]
                      ELSE saved,
        chose |-> lost]

-----------------------------------------------------------------------------
ClosedTab ==
    [records |-> <<>>, current |-> None, lastData |-> NoData,
     seen |-> [k \in Tokens |-> NoData], requests |-> {}, timer |-> FALSE,
     hidden |-> TRUE, storageAvailable |-> TRUE, lastStorageRaw |-> <<>>]

TrackingInit ==
    /\ now = 0
    /\ storage = <<>>
    /\ tab = [t \in Tabs |-> ClosedTab]
    /\ tracked = [k \in Tokens |-> NotYet]
    /\ wanted = {}

Became(t, x) ==
    /\ Cardinality(x.t.requests) <= MaxAnswers
    /\ tab' = [tab EXCEPT ![t] = x.t]
    /\ storage' = x.storage

\* The orders that a step of a tab drops from the storage are not wanted any more; those
\* it was asked for are, and those it has yet to save as the storage refused them.
WantedAfter(t, more) ==
    LET unsaved == IF tab[t].storageAvailable \/ tab[t].lastStorageRaw # storage THEN {}
                   ELSE tokens(tab[t].records)
    IN wanted' = (wanted \ (tokens(storage) \ tokens(storage'))) \cup unsaved \cup more

Sees(t) == [t |-> tab[t], storage |-> storage]

\* A handler of the tab that leaves x.
Leaves(t, x) == Became(t, x) /\ WantedAfter(t, {}) /\ UNCHANGED <<now, tracked>>

\* expire is done, and then, unless it chose another order, y is made of it.
Unless(done, y) == IF done.chose THEN done.x ELSE y

Asking(x) == [x EXCEPT !.t = ask(@)]

\* A storage event, or the expiry timer, late or not.
syncStorage(t, e) == Leaves(t, Expired(Sees(t), e).x)

\* The timer, the button, and the events that resume.
refresh(t, e) ==
    LET done == Expired(Sees(t), e) IN
    ~tab[t].hidden /\ Leaves(t, Unless(done, Asking(done.x)))

\* visibilitychange; a page that is left (pagehide) also drops its request.
Hide(t, e) ==
    LET still == [tab[t] EXCEPT !.timer = FALSE, !.hidden = TRUE]
        done == Expired([t |-> still, storage |-> storage], e)
    IN /\ ~tab[t].hidden
       /\ \E left \in BOOLEAN :
              Leaves(t, IF left THEN [done.x EXCEPT !.t = cancel(@)] ELSE done.x)

Show(t, e) ==
    LET shown == [tab[t] EXCEPT !.timer = FALSE, !.hidden = FALSE]
        done == Expired([t |-> shown, storage |-> storage], e)
    IN /\ tab[t].hidden /\ tab[t] # ClosedTab
       /\ Leaves(t, Unless(done, Asking(done.x)))

\* The selector, which holds the tab's records.
Followed(x, k) ==
    [x EXCEPT !.t = choose(@, IF k \in tokens(@.records) THEN k ELSE None, NoData)]

Select(t, k, e) ==
    LET done == Expired(Sees(t), e) IN
    /\ ~tab[t].hidden
    /\ k \in tokens(tab[t].records) \ {tab[t].current}
    /\ Leaves(t, Unless(done, Followed(done.x, k)))

\* The current order is dropped, and the next one followed.
Drop(x, e) ==
    LET less == [x EXCEPT !.t.records = Without(@, x.t.current)]
        saved == save(less, e)
    IN [saved EXCEPT !.t = choose(@, First(less.t.records), NoData)]

\* Mutant: the storage is not read before it is written.
forget_Unreconciled(t, e) ==
    ~tab[t].hidden /\ tab[t].current # None /\ Leaves(t, Drop(Sees(t), e))

forget(t, e) ==
    LET done == Expired(Sees(t), e) IN
    ~tab[t].hidden /\ tab[t].current # None /\ Leaves(t, Unless(done, Drop(done.x, e)))

\* remember: a link is opened in the tab, or its order was created there. A record the
\* tab knew keeps its time; one that has died is not remembered again.
Remembered(x, known, k, data, e) ==
    LET previous == {savedAt(r, k) : r \in {s \in {known, x.t.records} : k \in tokens(s)}}
        first == CHOOSE s \in previous \cup {now} : \A p \in previous \cup {now} : s <= p
        records == <<[token |-> k, savedAt |-> first]>> \o Without(x.t.records, k)
        newest == SubSeq(records, 1, Min2(Kept, Len(records)))
        saved == save([x EXCEPT !.t.records = newest], e)
    IN [saved EXCEPT !.t = choose(@, k, data)]

remember(t, k, data, e) ==
    LET known == tab[t].records
        done == Expired(Sees(t), e)
        dead == k \in tokens(known) /\ ~isLive([token |-> k, savedAt |-> savedAt(known, k)])
    IN /\ Became(t, IF dead THEN done.x
                    ELSE Remembered(done.x, known, k, data, e))
       /\ WantedAfter(t, IF dead THEN {} ELSE {k})

OrderCreated(t, k, e) ==
    /\ ~tab[t].hidden /\ tracked[k] = NotYet
    /\ tracked' = [tracked EXCEPT ![k] = 0]
    /\ remember(t, k, 0, e)
    /\ UNCHANGED now

LinkOpened(t, k, e) ==
    /\ ~tab[t].hidden /\ tracked[k] # NotYet
    /\ remember(t, k, NoData, e)
    /\ UNCHANGED <<now, tracked>>

\* The page is loaded, with a link or without; and closed.
Load(t, e) ==
    LET blank == [ClosedTab EXCEPT !.hidden = FALSE,
                                   !.records = IF e = "off" THEN <<>> ELSE parseRecords(storage)]
        begun == save([t |-> blank, storage |-> storage], e)
    IN /\ tab[t] = ClosedTab
       /\ \/ /\ Became(t, [begun EXCEPT !.t = choose(@, First(blank.records), NoData)])
             /\ WantedAfter(t, {})
          \/ \E k \in Tokens :
                /\ tracked[k] # NotYet
                /\ Became(t, Remembered(begun, blank.records, k, NoData, e))
                /\ WantedAfter(t, {k})
       /\ UNCHANGED <<now, tracked>>

Close(t) ==
    /\ tab' = [tab EXCEPT ![t] = ClosedTab]
    /\ UNCHANGED <<now, storage, tracked, wanted>>

\* What a tab with a working storage can do to it, by the actions above.
OtherTab(k) ==
    /\ \/ /\ storage' = Without(storage, k)
          /\ wanted' = wanted \ (tokens(storage) \ tokens(storage'))
       \/ /\ k \notin tokens(storage) /\ tracked[k] # NotYet /\ Len(storage) < Kept
          /\ storage' = <<[token |-> k, savedAt |-> now]>> \o storage
          /\ wanted' = wanted \cup {k}
    /\ UNCHANGED <<now, tab, tracked>>

\* An answer arrives. It counts when the request is of the current generation and, once
\* the records are reconciled, its order is still the selected one.
Arrive(t, q, e) ==
    LET less == [tab[t] EXCEPT !.requests = @ \ {q}]
        done == Expired([t |-> less, storage |-> storage], e)
        y == done.x
        counts == q.isCurrent /\ ~done.chose /\ y.t.current = q.token
    IN /\ q \in tab[t].requests /\ q.answer # NotYet
       /\ Leaves(t, CASE ~counts -> y
                      [] counts /\ q.answer = Gone -> Drop(y, e)
                      [] counts /\ q.answer = Failed -> [y EXCEPT !.t = schedule(@)]
                      [] OTHER -> [y EXCEPT !.t = schedule(render(@, q.answer))])

-----------------------------------------------------------------------------
\* The server: it answers with the order as it is, and the order changes.
getPublicOrderTrackingByToken(t, q) ==
    /\ q \in tab[t].requests /\ q.answer = NotYet
    /\ \E a \in {tracked[q.token], Failed} :
           tab' = [tab EXCEPT ![t].requests = (@ \ {q}) \cup {[q EXCEPT !.answer = a]}]
    /\ UNCHANGED <<now, storage, tracked, wanted>>

Change(k) ==
    /\ tracked[k] \in 0 .. Final
    /\ tracked' = [tracked EXCEPT ![k] = @ + 1]
    /\ UNCHANGED <<now, storage, tab, wanted>>

Tick ==
    /\ now' \in now + 1 .. MaxTime
    /\ UNCHANGED <<storage, tab, tracked, wanted>>

TabStep(t, e) ==
    \/ syncStorage(t, e) \/ refresh(t, e)
    \/ Hide(t, e) \/ Show(t, e)
    \/ forget(t, e) \/ Load(t, e)
    \/ \E k \in Tokens :
          \/ Select(t, k, e)
          \/ OrderCreated(t, k, e) \/ LinkOpened(t, k, e)
    \/ \E q \in tab[t].requests : Arrive(t, q, e)

\* The browser's tabs that are modelled, and the server.
OwnStep ==
    \/ \E t \in Tabs, e \in Storages : TabStep(t, e)
    \/ \E t \in Tabs : Close(t)
    \/ \E t \in Tabs : \E q \in tab[t].requests : getPublicOrderTrackingByToken(t, q)
    \/ \E k \in Tokens : Change(k)
    \/ Tick

TrackingNext == OwnStep \/ \E k \in Tokens : OtherTab(k)

TrackingSpec == TrackingInit /\ [][TrackingNext]_trackingVars

-----------------------------------------------------------------------------
(***************************************************************************)
(* Properties                                                              *)
(***************************************************************************)
\* A tab follows an order it remembers, and a visible one goes on asking for it until
\* it has ended (tracking.js:259-270, 314-351).
PollingGoesOn ==
    \A t \in Tabs :
        /\ tab[t].current \in {None} \cup tokens(tab[t].records)
        /\ tab[t].current # None /\ tab[t].lastData # Final /\ ~tab[t].hidden =>
               isBusy(tab[t]) \/ tab[t].timer

\* An order the customer forgot, or whose link is dead, is not written back by another
\* tab or by one that was suspended (tracking.js:150-182, 353-374).
ForgottenStays == tokens(storage) \subseteq wanted

\* While a tab remembers an order, nothing makes its link last longer: not opening the
\* link again, nor what another tab stored (tracking.js:161-164, 353-362).
NoLongerKept ==
    \A t \in Tabs : \A k \in tokens(tab[t].records) \cap tokens(tab'[t].records) :
        savedAt(tab'[t].records, k) <= savedAt(tab[t].records, k)

\* The status a tab shows of an order does not go back, whichever order was followed
\* meanwhile and in whatever order the answers come (tracking.js:279-306, 323-327).
StatusGoesForward ==
    \A t \in Tabs :
        tab[t].lastData # NoData /\ tab[t].current # None =>
            tab[t].lastData >= tab[t].seen[tab[t].current]

\* What holds in every state of the tabs and the storage: the three above.
TrackingKept == TrackingTypeOK /\ PollingGoesOn /\ ForgottenStays /\ StatusGoesForward

\* The tabs that share a storage: a visible one that tracks an order goes on asking for
\* it and shows no older status after a newer one, no tab writes back an order that was
\* forgotten, and nothing makes a tracking link last longer (tracking.js:150-182, 259-374).
TrackingHolds == []TrackingKept /\ [][NoLongerKept]_trackingVars
=============================================================================
