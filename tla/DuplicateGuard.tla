--------------------------- MODULE DuplicateGuard ---------------------------
(***************************************************************************)
(* The guard on public order submissions (middleware/                      *)
(* orderDuplicateGuard.ts).  Every submission here carries the same        *)
(* payload, so they share one reservation row.  A submission stamps its    *)
(* window, sweeps expired rows and inserts its own; the handler runs for   *)
(* as long as it takes; and an error answered to the client, with the      *)
(* order committed or not, lets the row be deleted by its key, whoever     *)
(* holds it by then.  One clock stands for the processes' and the          *)
(* database's.                                                             *)
(***************************************************************************)
EXTENDS Integers

CONSTANTS
    Submissions,
    Window,         \* DUPLICATE_WINDOW_MS
    MaxTime         \* bound: last tick explored

GuardAssumption == Window \in Nat \ {0} /\ MaxTime \in Nat

Free == -1
Never == -1

VARIABLES
    now,
    expires,    \* when the row expires, Free when there is none
    sub         \* what became of each submission

vars == <<now, expires, sub>>

\* A submission that was let in is running, answered, or has lost its client; until
\* is what it writes into the row, start when it did, end when it deleted the row.
Sub == [state : {"new", "arrived", "swept", "refused", "running", "ok", "failed", "gone"},
        until : 0 .. MaxTime + Window, start : 0 .. MaxTime, end : Never .. MaxTime,
        made : BOOLEAN]     \* its order is committed

GuardTypeOK ==
    /\ now \in 0 .. MaxTime
    /\ expires \in {Free} \union (0 .. MaxTime + Window)
    /\ sub \in [Submissions -> Sub]

Init ==
    /\ now = 0
    /\ expires = Free
    /\ sub = [s \in Submissions |->
                [state |-> "new", until |-> 0, start |-> 0, end |-> Never, made |-> FALSE]]

\* preventDuplicatePublicOrderSubmission computes expiresAt,
Arrive(s) ==
    /\ sub[s].state = "new"
    /\ sub' = [sub EXCEPT ![s].state = "arrived", ![s].until = now + Window]
    /\ UNCHANGED <<now, expires>>

\* deletes the rows that have expired,
DeleteExpired(s) ==
    /\ sub[s].state = "arrived"
    /\ expires' = IF expires <= now THEN Free ELSE expires
    /\ sub' = [sub EXCEPT ![s].state = "swept"]
    /\ UNCHANGED now

\* and inserts the row unless it is there.
Reserve(s) ==
    /\ sub[s].state = "swept"
    /\ IF expires = Free
       THEN /\ expires' = sub[s].until
            /\ sub' = [sub EXCEPT ![s].state = "running", ![s].start = now]
       ELSE /\ sub' = [sub EXCEPT ![s].state = "refused"]
            /\ UNCHANGED expires
    /\ UNCHANGED now

\* The transaction of createOrder commits, also when the client is gone.
Commit(s) ==
    /\ sub[s].state \in {"running", "gone"}
    /\ ~sub[s].made
    /\ sub' = [sub EXCEPT ![s].made = TRUE]
    /\ UNCHANGED <<now, expires>>

\* The handler answers: an error may come from before the transaction or from what
\* follows its commit. A client that went away, or a process that died, finishes nothing.
Answer(s) ==
    /\ sub[s].state = "running"
    /\ \E outcome \in {"ok", "failed", "gone"} :
          /\ outcome = "ok" => sub[s].made
          /\ sub' = [sub EXCEPT ![s].state = outcome]
    /\ UNCHANGED <<now, expires>>

\* Mutant: the row is released whatever was answered.
Release_Always(s) ==
    /\ sub[s].state \in {"ok", "failed"}
    /\ sub[s].end = Never
    /\ sub' = [sub EXCEPT ![s].end = now]
    /\ expires' = Free
    /\ UNCHANGED now

\* After an error was answered the row is deleted, by a call nobody waits for.
Release(s) ==
    /\ sub[s].state = "failed"
    /\ sub[s].end = Never
    /\ sub' = [sub EXCEPT ![s].end = now]
    /\ expires' = Free
    /\ UNCHANGED now

Tick ==
    /\ now < MaxTime
    /\ now' = now + 1
    /\ UNCHANGED <<expires, sub>>

Next ==
    \/ \E s \in Submissions :
          \/ Arrive(s) \/ DeleteExpired(s) \/ Reserve(s)
          \/ Commit(s) \/ Answer(s) \/ Release(s)
    \/ Tick

Spec == Init /\ [][Next]_vars

-----------------------------------------------------------------------------
Released(s) == sub[s].state = "failed" /\ sub[s].end # Never

\* Two submissions of one payload whose windows overlap both create an order only if
\* the client of one was told of an error and its row released before the other one
\* reserved, or if by then some third one had outlived its own row and released
\* another's. An accepted order, and one whose client went away, holds off the next
\* one for its window (orderDuplicateGuard.ts:75-109, order.controller.ts:833-844).
OneOrderPerWindow ==
    \A s, t \in Submissions :
        /\ s # t /\ sub[s].made /\ sub[t].made
        /\ sub[s].start < sub[t].until /\ sub[t].start < sub[s].until
        => \/ Released(s) /\ sub[s].end <= sub[t].start
           \/ Released(t) /\ sub[t].end <= sub[s].start
           \/ \E u \in Submissions \ {s, t} :
                 /\ Released(u) /\ sub[u].until <= sub[u].end
                 /\ sub[u].end <= sub[s].start \/ sub[u].end <= sub[t].start
=============================================================================
