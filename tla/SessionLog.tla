----------------------------- MODULE SessionLog -----------------------------
(***************************************************************************)
(* The staff session log's buffer (services/staffSessionLog.service.ts).   *)
(* recordSessionEvent never waits for the database: it puts the event in a *)
(* bounded, insertion-ordered map, and one flush at a time writes the map  *)
(* from its oldest entry on.  Events arrive, and the oldest are evicted,   *)
(* while a write is under way.                                             *)
(***************************************************************************)
EXTENDS Integers, Sequences, SequencesExt

CONSTANTS
    Events,         \* event keys; a repeated event of one session has the same key
    MaxBuffer,      \* MAX_BUFFER
    MaxFaults       \* bound: database interruptions explored

SessionLogAssumption == MaxBuffer \in Nat \ {0} /\ MaxFaults \in Nat

Nothing == "nothing"

VARIABLES
    queue,      \* buffered keys, oldest first
    recent,     \* keys recorded in the last ten minutes, oldest first
    writing,    \* the key the flush awaits
    flushing,
    saved,      \* keys in StaffSessionEvent
    evicted,    \* keys pushed out of a full buffer
    recorded,   \* keys accepted for recording
    faults      \* interruptions so far

vars == <<queue, recent, writing, flushing, saved, evicted, recorded, faults>>

Distinct(q) == \A i, j \in DOMAIN q : q[i] = q[j] => i = j

LogTypeOK ==
    /\ queue \in Seq(Events) /\ Len(queue) <= MaxBuffer /\ Distinct(queue)
    /\ recent \in Seq(Events) /\ Len(recent) <= MaxBuffer /\ Distinct(recent)
    /\ writing \in Events \union {Nothing}
    /\ flushing \in BOOLEAN
    /\ {saved, evicted, recorded} \subseteq SUBSET Events
    /\ faults \in 0 .. MaxFaults

Init ==
    /\ queue = <<>> /\ recent = <<>>
    /\ writing = Nothing /\ flushing = FALSE
    /\ saved = {} /\ evicted = {} /\ recorded = {}
    /\ faults = 0

\* Map.set on a map that holds MaxBuffer keys first deletes the oldest; a key
\* that is still there keeps its place.
Room(q) == IF Len(q) >= MaxBuffer THEN Tail(q) ELSE q
Put(q, k) == IF Contains(Room(q), k) THEN Room(q) ELSE Append(Room(q), k)
Drop(q, k) ==
    IF Contains(q, k) THEN RemoveAt(q, CHOOSE i \in DOMAIN q : q[i] = k) ELSE q

\* A deduplicated event that is recent is dropped; anything else is buffered.
recordSessionEvent(k) ==
    /\ ~Contains(recent, k)
    /\ recent' = Put(recent, k)
    /\ queue' = Put(queue, k)
    /\ evicted' = evicted \union (IF Len(queue) >= MaxBuffer THEN {Head(queue)} ELSE {})
    /\ recorded' = recorded \union {k}
    /\ UNCHANGED <<writing, flushing, saved, faults>>

\* Ten minutes later a key is not recent any more.
Forget ==
    /\ recent # <<>>
    /\ recent' = Tail(recent)
    /\ UNCHANGED <<queue, writing, flushing, saved, evicted, recorded, faults>>

\* Mutant: an entry leaves the buffer when its write begins.
Flush_Takes ==
    /\ ~flushing
    /\ queue # <<>>
    /\ flushing' = TRUE
    /\ writing' = Head(queue)
    /\ queue' = Tail(queue)
    /\ UNCHANGED <<recent, saved, evicted, recorded, faults>>

\* The timer, or an event, starts a flush unless one runs.
Flush ==
    /\ ~flushing
    /\ queue # <<>>
    /\ flushing' = TRUE
    /\ writing' = Head(queue)
    /\ UNCHANGED <<queue, recent, saved, evicted, recorded, faults>>

\* The upsert succeeds: the key is deleted, if it is still there, and the loop
\* goes on with the oldest that is left.
Written ==
    /\ writing # Nothing
    /\ saved' = saved \union {writing}
    /\ queue' = Drop(queue, writing)
    /\ flushing' = (queue' # <<>>)
    /\ writing' = IF queue' = <<>> THEN Nothing ELSE Head(queue')
    /\ UNCHANGED <<recent, evicted, recorded, faults>>

\* Mutant: the flush stays marked as running after a failure.
WriteFails_StaysFlushing ==
    /\ flushing
    /\ faults < MaxFaults
    /\ faults' = MaxFaults
    /\ writing' = Nothing
    /\ UNCHANGED <<queue, recent, flushing, saved, evicted, recorded>>

\* The database is unavailable: the loop breaks and everything stays buffered.
WriteFails ==
    /\ flushing
    /\ faults < MaxFaults
    /\ faults' = faults + 1
    /\ flushing' = FALSE
    /\ writing' = Nothing
    /\ UNCHANGED <<queue, recent, saved, evicted, recorded>>

Next ==
    \/ \E k \in Events : recordSessionEvent(k)
    \/ Forget \/ Flush \/ Written \/ WriteFails

\* The interval fires every 30 seconds and every write ends.
Fairness == WF_vars(Flush) /\ WF_vars(Written)

Spec == Init /\ [][Next]_vars /\ Fairness

-----------------------------------------------------------------------------
\* An event that was recorded is saved or still buffered, unless a full buffer
\* pushed it out: neither an interruption nor a delete by key loses one
\* (staffSessionLog.service.ts:79-84, 102-113).
SavedOrBuffered == recorded \subseteq saved \union evicted \union ToSet(queue)

\* A buffered event leaves the buffer once the database answers again
\* (staffSessionLog.service.ts:90-96).
Drained(k) == Contains(queue, k) ~> k \in saved \union evicted

BufferDrains == \A k \in Events : Drained(k)
=============================================================================
