----------------------------- MODULE MCCustomers -----------------------------
(***************************************************************************)
(* A small instance, for TLC, of what customers do by themselves: the      *)
(* codes, credentials and requests of an account's erasure, the protected  *)
(* journal that its cases are decided in, the website's order form and its *)
(* order tracking.  Each behaviour runs one of them; PrivacySpec, which    *)
(* PrivacyRecovered.cfg and PrivacyNewest.cfg use, runs the first two.     *)
(* Five kinds of visit track orders, each with a part of what can happen:  *)
(* a tab that follows two orders while others change the storage, one      *)
(* whose storage fails, one that has to drop the oldest of its orders, one *)
(* with overlapping requests, and two tabs side by side.                   *)
(***************************************************************************)
EXTENDS PrivacyJournal, PrivacyRequests, WebOrder, OrderTracking, TLC

CONSTANTS c1, c2, s1, t1, t2

VARIABLES
    part,       \* the privacy machine that runs
    visit       \* the machine that runs

privacyVars == <<part, vars, requestVars>>

\* The form in one of its initial states.
FormRests == WebOrderInit /\ page.field \in Deliverable /\ shop = "open"

OneCustomer == [c \in {c1, c2} |-> s1]

PrivacyInit == part \in {"journal", "requests"} /\ Init /\ RequestsInit

JournalRuns == part = "journal" /\ Next /\ UNCHANGED <<part, requestVars>>
RequestsRun == part = "requests" /\ RequestsNext /\ UNCHANGED <<part, vars>>

PrivacyNext ==
    /\ visit = "privacy"
    /\ JournalRuns \/ RequestsRun
    /\ UNCHANGED <<visit, webOrderVars, trackingVars>>

PrivacySpec ==
    /\ PrivacyInit /\ visit = "privacy" /\ FormRests /\ TrackingInit
    /\ [][PrivacyNext]_<<visit, privacyVars, webOrderVars, trackingVars>>

CustomersInit ==
    /\ PrivacyInit /\ TrackingInit
    /\ \/ visit = "privacy" /\ FormRests
       \/ visit = "form" /\ part = "journal" /\ WebOrderInit
       \/ /\ visit \in {"following", "failing", "evicting", "overlapping", "side by side"}
          /\ part = "journal" /\ FormRests

\* The tabs that are opened, and how far each order goes.
Tracks(opened, reached) ==
    /\ \A t \in Tabs \ opened : tab'[t] = ClosedTab
    /\ \A k \in Tokens : tracked'[k] <= reached[k]

StorageWorks == \A t \in Tabs : tab'[t].storageAvailable

OneRequest == \A t \in Tabs : Cardinality(tab'[t].requests) <= 1

Visit ==
    \/ /\ visit = "following" /\ TrackingNext
       /\ Tracks({t1}, <<0, 0, NotYet>>) /\ StorageWorks /\ OneRequest /\ now' # 1
    \/ /\ visit = "failing" /\ TrackingNext
       /\ Tracks({t1}, <<Gone, NotYet, NotYet>>) /\ OneRequest
    \/ /\ visit = "evicting" /\ OwnStep
       /\ Tracks({t1}, <<Final, 0, 0>>) /\ StorageWorks /\ OneRequest /\ now' = 0
    \/ /\ visit = "overlapping" /\ OwnStep
       /\ Tracks({t1}, <<Final, 0, NotYet>>) /\ StorageWorks /\ now' = 0
    \/ /\ visit = "side by side" /\ OwnStep
       /\ Tracks({t1, t2}, <<0, NotYet, NotYet>>) /\ StorageWorks /\ OneRequest /\ now' # 1

CustomersNext ==
    \/ PrivacyNext
    \/ visit = "form" /\ WebOrderNext /\ UNCHANGED <<visit, privacyVars, trackingVars>>
    \/ Visit /\ UNCHANGED <<visit, privacyVars, webOrderVars>>

CustomersSpec ==
    CustomersInit /\ [][CustomersNext]_<<visit, privacyVars, webOrderVars, trackingVars>>

Symmetric == Permutations({c1, c2})

\* A journal of eight entries, or a change of the orders; two orders of one page, or
\* one order with a page that is loaded again.
Bounded ==
    /\ visit = "privacy" /\ part = "journal" => head < 7 \/ \A s \in Subjects : orders[s] <= 1
    /\ visit = "form" => page.load + Len(post) <= 3

=============================================================================
