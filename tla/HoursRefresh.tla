---------------------------- MODULE HoursRefresh ----------------------------
(***************************************************************************)
(* The paid refresh of pickup stores' opening hours (services/             *)
(* pickupLocationHours.service.ts).  Every process runs a monitor and      *)
(* serves an explicit refresh; a run stamps everything with the time it    *)
(* began, reads the stores once, and walks them one by one, claiming a     *)
(* store by comparing the time it was last checked.  An edit that gives a  *)
(* store another Google place forgets what the old place said, the time of *)
(* the last check included, between any two steps of the runs.             *)
(***************************************************************************)
EXTENDS Integers, Sequences

CONSTANTS
    Runs,       \* runs in flight together, of monitors and of endpoints
    Stores,
    Week,       \* CURRENT_HOURS_REFRESH_MS
    RunTime,    \* the longest a run takes, far less than a week
    MaxTime,    \* bound: last tick explored
    MaxEdits    \* bound on the edits of a store's place

RefreshAssumption ==
    Week \in Nat \ {0} /\ RunTime \in 1 .. Week - 1 /\ MaxTime \in Nat /\ MaxEdits \in Nat

Never == 0 - Week - 1

VARIABLES
    now,
    checked,    \* PickupLocation.hoursLastCheckedAt
    hours,      \* the stamp of the hours a store shows, Never when it has none
    failed,     \* hoursLastError
    place,      \* googlePlaceId, numbered as the edits gave them
    edits,      \* places given to each store so far
    run,        \* each run: when it began, what it read, what is left, what it does
    paid        \* the stamps of the paid calls per store, since its last edit

vars == <<now, checked, hours, failed, place, edits, run, paid>>

Stamp == {Never} \union (0 .. MaxTime)
Run == [pc : {"idle", "walking", "calling"}, began : 0 .. MaxTime,
        read : [Stores -> Stamp], places : [Stores -> 0 .. MaxEdits], left : SUBSET Stores, store : Stores]

RefreshTypeOK ==
    /\ now \in 0 .. MaxTime
    /\ checked \in [Stores -> Stamp]
    /\ hours \in [Stores -> Stamp]
    /\ failed \in [Stores -> BOOLEAN]
    /\ place \in [Stores -> 0 .. MaxEdits]
    /\ edits \in [Stores -> 0 .. MaxEdits]
    /\ run \in [Runs -> Run]
    /\ paid \in [Stores -> Seq(0 .. MaxTime)]

Init ==
    /\ now = 0
    /\ checked = [s \in Stores |-> Never]
    /\ hours = [s \in Stores |-> Never]
    /\ failed = [s \in Stores |-> FALSE]
    /\ place = [s \in Stores |-> 0] /\ edits = [s \in Stores |-> 0]
    /\ run = [r \in Runs |-> [pc |-> "idle", began |-> 0, left |-> {},
                              read |-> [s \in Stores |-> Never],
                              places |-> [s \in Stores |-> 0],
                              store |-> CHOOSE s \in Stores : TRUE]]
    /\ paid = [s \in Stores |-> <<>>]

Tick ==
    /\ now < MaxTime
    /\ \A r \in Runs : run[r].pc # "idle" => now < run[r].began + RunTime
    /\ now' = now + 1
    /\ UNCHANGED <<checked, hours, failed, place, edits, run, paid>>

\* An edit gives a store another place. The row is cleared with it.
updatePickupLocation(s) ==
    /\ edits[s] < MaxEdits
    /\ edits' = [edits EXCEPT ![s] = @ + 1]
    /\ place' = [place EXCEPT ![s] = edits[s] + 1]
    /\ checked' = [checked EXCEPT ![s] = Never]
    /\ hours' = [hours EXCEPT ![s] = Never]
    /\ failed' = [failed EXCEPT ![s] = FALSE]
    /\ paid' = [paid EXCEPT ![s] = <<>>]
    /\ UNCHANGED <<now, run>>

\* A run reads all the stores it will walk: the active ones, or the one asked for.
refreshPickupLocationHours(r) ==
    /\ run[r].pc = "idle"
    /\ \E S \in {Stores} \union {{s} : s \in Stores} :
          run' = [run EXCEPT ![r] = [pc |-> "walking", began |-> now, read |-> checked,
                                     places |-> place, left |-> S, store |-> run[r].store]]
    /\ UNCHANGED <<now, checked, hours, failed, place, edits, paid>>

\* The row this run read says the store was checked within the week.
Fresh(r, s) == run[r].read[s] > run[r].began - Week

Claimed(r, s) ==
    /\ checked' = [checked EXCEPT ![s] = run[r].began]
    /\ paid' = [paid EXCEPT ![s] = Append(@, run[r].began)]
    /\ run' = [run EXCEPT ![r].pc = "calling", ![r].store = s, ![r].left = @ \ {s}]

Skipped(r, s) ==
    /\ run' = [run EXCEPT ![r].left = @ \ {s}]
    /\ UNCHANGED <<checked, paid>>

\* Mutant: the claim does not compare the time the store was last checked.
Claim_Blind(r, s) ==
    /\ run[r].pc = "walking"
    /\ s \in run[r].left
    /\ IF ~Fresh(r, s) THEN Claimed(r, s) ELSE Skipped(r, s)
    /\ UNCHANGED <<now, hours, failed, place, edits>>

\* The claim is written before any call to Google, and only over the time this
\* run read.
Claim(r, s) ==
    /\ run[r].pc = "walking"
    /\ s \in run[r].left
    /\ IF ~Fresh(r, s) /\ checked[s] = run[r].read[s] THEN Claimed(r, s) ELSE Skipped(r, s)
    /\ UNCHANGED <<now, hours, failed, place, edits>>

\* The answer, or the failure, is stored with the run's stamp either way; an answer
\* with the place this run read.
Store(r) ==
    /\ run[r].pc = "calling"
    /\ LET s == run[r].store IN
          /\ checked' = [checked EXCEPT ![s] = run[r].began]
          /\ \/ /\ hours' = [hours EXCEPT ![s] = run[r].began]
                /\ failed' = [failed EXCEPT ![s] = FALSE]
                /\ place' = [place EXCEPT ![s] = run[r].places[s]]
             \/ /\ failed' = [failed EXCEPT ![s] = TRUE]
                /\ UNCHANGED <<hours, place>>
    /\ run' = [run EXCEPT ![r].pc = "walking"]
    /\ UNCHANGED <<now, edits, paid>>

\* Every store was walked, or the process stopped in the middle.
RunEnds(r) ==
    /\ run[r].pc # "idle"
    /\ run' = [run EXCEPT ![r].pc = "idle", ![r].left = {}]
    /\ UNCHANGED <<now, checked, hours, failed, place, edits, paid>>

Next ==
    \/ Tick
    \/ \E s \in Stores : updatePickupLocation(s)
    \/ \E r \in Runs :
          \/ refreshPickupLocationHours(r) \/ Store(r) \/ RunEnds(r)
          \/ \E s \in Stores : Claim(r, s)

Spec == Init /\ [][Next]_vars

-----------------------------------------------------------------------------
\* Two paid calls for one store are stamped at least a week apart, however runs
\* overlap, fail or stop: "Even failed attempts and explicit refresh endpoints
\* respect this cap" (pickupLocationHours.service.ts:363-379). An edit of its place
\* starts anew; from then on a run that outlived the edit may write its own, earlier
\* stamp over a later one, and shortens the week by the time a run takes.
PaidOncePerWeek ==
    \A s \in Stores : \A i, j \in DOMAIN paid[s] :
        i < j => paid[s][i] + Week <= paid[s][j] + (IF edits[s] = 0 THEN 0 ELSE RunTime)
=============================================================================
