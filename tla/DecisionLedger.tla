--------------------------- MODULE DecisionLedger ---------------------------
(***************************************************************************)
(* What the privacy subsystem promises about deletion requests: one        *)
(* decision per request, taken in one step, that nothing undoes.  Neither  *)
(* servers nor databases nor backups appear here; PrivacyJournal shows     *)
(* what it takes to keep the promise through crashes and restores.         *)
(***************************************************************************)
EXTENDS DeletionPolicy

VARIABLE decision   \* the PrivacyDeletionRequest as its customer was told

-----------------------------------------------------------------------------
Init == decision = [c \in Cases |-> NoRequest]

Submit(c) ==
    /\ \A d \in Cases :
           SubjectOf[d] = SubjectOf[c] => decision[d].status \notin Active \cup Erased
    /\ \E r \in Submitted(decision[c]) : decision' = [decision EXCEPT ![c] = r]

Decide(c) == \E r \in Steps(decision[c]) : decision' = [decision EXCEPT ![c] = r]

\* A reviewed successor history leaves closed requests out.
Retire(R) ==
    /\ \A c \in R : decision[c].status \in Closed
    /\ decision' = [c \in Cases |-> IF c \in R THEN NoRequest ELSE decision[c]]

Next ==
    \/ \E c \in Cases : Submit(c) \/ Decide(c)
    \/ \E R \in SUBSET Cases : Retire(R)

Spec == Init /\ [][Next]_decision
=============================================================================
