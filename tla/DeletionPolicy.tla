--------------------------- MODULE DeletionPolicy ---------------------------
(***************************************************************************)
(* The states of a deletion request and the transitions the handlers of    *)
(* privacyDeletion.service.ts make, each with the guard of its handler.    *)
(* An operator returns the rows a transition may leave: none, when its     *)
(* handler refuses.                                                        *)
(***************************************************************************)
EXTENDS Integers

CONSTANTS
    Cases,      \* identifiers of deletion requests
    Subjects,   \* customers
    SubjectOf,  \* the customer a request is about
    Systems     \* external systems to be checked after an erasure

ASSUME PolicyAssumption == SubjectOf \in [Cases -> Subjects] /\ Systems \in Nat

Active == {"SUBMITTED", "HOLD"}
Erased == {"FULFILLING", "COMPLETED"}
Closed == {"CANCELLED", "COMPLETED"}
Statuses == {"ABSENT", "SUBMITTED", "HOLD", "CANCELLED", "FULFILLING", "COMPLETED"}

Request == [status : Statuses, version : Nat, tasks : 0 .. Systems]

NoRequest == [status |-> "ABSENT", version |-> 0, tasks |-> 0]

Bump(r, s) == [status |-> s, version |-> r.version + 1, tasks |-> r.tasks]

-----------------------------------------------------------------------------
Submitted(r) == IF r = NoRequest
                THEN {[status |-> "SUBMITTED", version |-> 0, tasks |-> 0]} ELSE {}

\* A customer with an active request only gets a new status credential for it.
Recovered(r) == IF r.status \in Active THEN {Bump(r, r.status)} ELSE {}

Held(r) == IF r.status \in Active THEN {Bump(r, "HOLD")} ELSE {}

Cancelled(r) == IF r.status \in Active THEN {Bump(r, "CANCELLED")} ELSE {}

Fulfilled(r) == IF r.status = "SUBMITTED" THEN {Bump(r, "FULFILLING")} ELSE {}

Resolved(r) == IF r.status = "FULFILLING" /\ r.tasks < Systems
               THEN {[r EXCEPT !.tasks = @ + 1]} ELSE {}

Completed(r) == IF r.status = "FULFILLING" /\ r.tasks = Systems
                THEN {Bump(r, "COMPLETED")} ELSE {}

\* A transition of a recorded request other than its creation.
Steps(r) == Recovered(r) \cup Held(r) \cup Cancelled(r) \cup Fulfilled(r)
                \cup Resolved(r) \cup Completed(r)
=============================================================================
