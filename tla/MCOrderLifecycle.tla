-------------------------- MODULE MCOrderLifecycle --------------------------
(***************************************************************************)
(* Small instances of OrderLifecycle for TLC.                              *)
(***************************************************************************)
EXTENDS OrderLifecycle, FiniteSets, TLC

\* Drivers are interchangeable, and so are the slots of the requests in flight.
Symmetric == Permutations(Drivers) \cup Permutations(Requests)

\* The drivers that anything in a state depends on.
Involved ==
    {d \in Drivers :
        \/ available[d] \/ ~access[d]
        \/ \E o \in Orders : order[o].driver = d
        \/ \E r \in Requests : d \in {req[r].driver, req[r].snap.driver}}

\* Two drivers within one reading of the clock, or one driver for as long as the
\* clock runs; automatic dispatch is switched off while no driver is involved.
Bounded ==
    /\ clock = 1 \/ Cardinality(Involved) <= 1
    /\ autoDispatch \/ Involved = {}
=============================================================================
