---------------------------- MODULE StoreRouting ----------------------------
(***************************************************************************)
(* The pickup route offered for one driver: which store of each required   *)
(* pickup type, and in which order, before the customer                    *)
(* (selectSequentialPickupRoutePlan, pickupStoreRouting.service.ts).       *)
(*                                                                         *)
(* Stores are numbers, so that a name's or an id's place in the alphabet   *)
(* is the number's.  The code streams complete routes past two running     *)
(* winners, in an order that follows from the order of its input; here the *)
(* stream comes in any order.                                              *)
(***************************************************************************)
EXTENDS Integers, FiniteSets, Sequences

CONSTANTS
    Maps,       \* the inputs: [types, stores, kind, priority, drive, open]
    Kept,       \* MAX_PICKUP_STORE_CANDIDATES_PER_PRIORITY_AND_TYPE
    Extra,      \* PREFERRED_PICKUP_ROUTE_MAX_EXTRA_SECONDS
    MaxStops    \* MAX_PICKUP_ROUTE_STOPS

\* The two ends of every route, and a leg the provider has no route for.
Driver == 0
Customer == -1
NoLeg == -1

NoPlan == <<Driver>>

Priorities == {"PREFERRED", "STANDARD", "FALLBACK"}

\* Finitely many stores, each of a type and a priority; the legs between them are known.
IsMap(m) ==
    /\ IsFiniteSet(m.types) /\ IsFiniteSet(m.stores) /\ m.stores \subseteq Nat \ {0}
    /\ m.kind \in [m.stores -> Int] /\ m.priority \in [m.stores -> Priorities]
    /\ m.drive \in [(m.stores \cup {Driver}) \X (m.stores \cup {Customer}) -> Nat \cup {NoLeg}]

StoreRoutingAssumption ==
    /\ Kept \in Nat \ {0} /\ Extra \in Nat /\ MaxStops \in Nat
    /\ \A m \in Maps : IsMap(m)

VARIABLES
    map,        \* the input
    phase,      \* the priorities searched: "primary", then "fallback"
    pass,       \* "baseline", "preferred", "done"
    unseen,     \* complete routes the running pass has not met
    baseline,   \* its fastest route so far
    preferred,  \* the best Preferred route so far
    plan        \* what is returned

routingVars == <<map, phase, pass, unseen, baseline, preferred, plan>>

-----------------------------------------------------------------------------
Leg(from, to) == map.drive[<<from, to>>]
Reachable(from, to) == Leg(from, to) # NoLeg

Allowed(p) == IF p = "primary" THEN {"PREFERRED", "STANDARD"} ELSE Priorities

\* The hint a store is shortlisted by: its journey alone, the stores that have
\* no way to the customer last, then the name.
Hint(s) == IF Reachable(s, Customer) THEN Leg(Driver, s) + Leg(s, Customer) ELSE -1

Nearer(s, t) ==
    IF Hint(s) = Hint(t)
    THEN Leg(Driver, s) < Leg(Driver, t) \/ (Leg(Driver, s) = Leg(Driver, t) /\ s < t)
    ELSE Hint(t) = -1 \/ (Hint(s) # -1 /\ Hint(s) < Hint(t))

Rivals(type, priority) ==
    {s \in map.stores : map.kind[s] = type /\ map.priority[s] = priority /\ Reachable(Driver, s)}

\* At most Kept stores of a type and a priority, the nearest ones, whatever
\* their opening hours.
Shortlist(type, p) ==
    UNION {{s \in Rivals(type, priority) :
               Cardinality({t \in Rivals(type, priority) : Nearer(t, s)}) < Kept} :
           priority \in Allowed(p)}

\* When a driver who visits the stops in order is at each of them.
Arrivals(stops) ==
    LET at[i \in DOMAIN stops] ==
            IF i = 1 THEN Leg(Driver, stops[1])
            ELSE at[i - 1] + Leg(stops[i - 1], stops[i])
    IN  at

\* Every leg exists, and every store is eligible at the time of arrival: it may not be
\* open yet, or not for long enough.
Drivable(stops) ==
    /\ Reachable(Driver, stops[1])
    /\ \A i \in 1 .. Len(stops) - 1 : Reachable(stops[i], stops[i + 1])
    /\ Reachable(stops[Len(stops)], Customer)
    /\ \A i \in DOMAIN stops : Arrivals(stops)[i] \in map.open[stops[i]]

\* The visits of one store per required type, over the stores of a pool.
Tours(pool) ==
    {stops \in [1 .. Cardinality(map.types) -> pool] :
        {map.kind[stops[i]] : i \in DOMAIN stops} = map.types}

CompleteRoutes(p) == {stops \in Tours(UNION {Shortlist(t, p) : t \in map.types}) : Drivable(stops)}

Total(stops) == Arrivals(stops)[Len(stops)] + Leg(stops[Len(stops)], Customer)

PreferredCount(stops) ==
    Cardinality({i \in DOMAIN stops : map.priority[stops[i]] = "PREFERRED"})

\* The signature of a route is "type:id|type:id..." compared as a text.
SignatureBefore(a, b) ==
    \E i \in DOMAIN a : /\ \A j \in 1 .. i - 1 : a[j] = b[j]
                        /\ \/ map.kind[a[i]] < map.kind[b[i]]
                           \/ map.kind[a[i]] = map.kind[b[i]] /\ a[i] < b[i]

\* compareFastestPlan
Faster(a, b) ==
    Total(a) < Total(b) \/ (Total(a) = Total(b) /\ SignatureBefore(a, b))

-----------------------------------------------------------------------------
RoutingInit ==
    /\ map \in Maps
    /\ phase = "primary" /\ pass = "shortlist" /\ unseen = {}
    /\ baseline = NoPlan /\ preferred = NoPlan /\ plan = NoPlan

\* No pickup at all: straight to the customer.  Too many: no plan.
Trivial ==
    /\ pass = "shortlist"
    /\ map.types = {} \/ Cardinality(map.types) > MaxStops
    /\ pass' = "done"
    /\ plan' = IF map.types = {} /\ Reachable(Driver, Customer) THEN <<>> ELSE NoPlan
    /\ UNCHANGED <<map, phase, unseen, baseline, preferred>>

\* buildCandidatesByPickupType and the start of the baseline pass.
runBoundedPhase ==
    /\ pass = "shortlist"
    /\ map.types # {} /\ Cardinality(map.types) <= MaxStops
    /\ pass' = "baseline"
    /\ unseen' = CompleteRoutes(phase)
    /\ UNCHANGED <<map, phase, baseline, preferred, plan>>

\* Mutant: a route as fast as the winner is not compared by its signature.
VisitBaseline_FirstWins(stops) ==
    /\ pass = "baseline" /\ stops \in unseen
    /\ unseen' = unseen \ {stops}
    /\ baseline' = IF baseline = NoPlan \/ Total(stops) < Total(baseline)
                   THEN stops ELSE baseline
    /\ UNCHANGED <<map, phase, pass, preferred, plan>>

VisitBaseline(stops) ==
    /\ pass = "baseline" /\ stops \in unseen
    /\ unseen' = unseen \ {stops}
    /\ baseline' = IF baseline = NoPlan \/ Faster(stops, baseline) THEN stops ELSE baseline
    /\ UNCHANGED <<map, phase, pass, preferred, plan>>

\* No route at all sends the search to the fallback stores once.
BaselineEnds ==
    /\ pass = "baseline" /\ unseen = {}
    /\ IF baseline # NoPlan
       THEN pass' = "preferred" /\ unseen' = CompleteRoutes(phase) /\ UNCHANGED phase
       ELSE /\ UNCHANGED unseen
            /\ phase' = "fallback"
            /\ pass' = IF phase = "primary" THEN "shortlist" ELSE "done"
    /\ UNCHANGED <<map, baseline, preferred, plan>>

\* A route with a Preferred store competes while it is within the allowance.
Competes(stops) ==
    PreferredCount(stops) > 0 /\ Total(stops) <= Total(baseline) + Extra

VisitPreferred(stops) ==
    /\ pass = "preferred" /\ stops \in unseen
    /\ unseen' = unseen \ {stops}
    /\ preferred' =
           IF /\ Competes(stops)
              /\ \/ preferred = NoPlan
                 \/ PreferredCount(stops) > PreferredCount(preferred)
                 \/ /\ PreferredCount(stops) = PreferredCount(preferred)
                    /\ Faster(stops, preferred)
           THEN stops ELSE preferred
    /\ UNCHANGED <<map, phase, pass, baseline, plan>>

PreferredEnds ==
    /\ pass = "preferred" /\ unseen = {}
    /\ pass' = "done"
    /\ plan' = IF preferred # NoPlan THEN preferred ELSE baseline
    /\ UNCHANGED <<map, phase, unseen, baseline, preferred>>

RoutingNext ==
    \/ Trivial \/ runBoundedPhase \/ BaselineEnds \/ PreferredEnds
    \/ \E stops \in unseen : VisitBaseline(stops) \/ VisitPreferred(stops)

RoutingSpec == RoutingInit /\ [][RoutingNext]_routingVars

-----------------------------------------------------------------------------
\* What the planner promises of a driver's route, over the stores it kept.
Best(routes) ==
    LET fastest == CHOOSE r \in routes : \A q \in routes \ {r} : Faster(r, q)
        near == {r \in routes : Total(r) <= Total(fastest) + Extra}
        most == CHOOSE n \in {PreferredCount(r) : r \in near} :
                    \A r \in near : PreferredCount(r) <= n
        chosen == {r \in near : PreferredCount(r) = most}
    IN  CHOOSE r \in chosen : \A q \in chosen \ {r} : Faster(r, q)

\* The plan returned does not depend on the order the routes are met in: it is
\* the one with the most Preferred stores within the allowance of the fastest
\* route, then the fastest, then the first by name; no plan is returned only
\* when no route is drivable (pickupStoreRouting.service.ts:880-1065, and
\* tests/pickupStoreRouting.test.js:424, "deterministic regardless of input
\* ordering").
PlanIsBest ==
    pass = "done" /\ map.types # {} /\ Cardinality(map.types) <= MaxStops =>
        plan = IF CompleteRoutes(phase) = {} THEN NoPlan ELSE Best(CompleteRoutes(phase))

\* With no more stores of a type and priority than the shortlist keeps, no open
\* route is missed: a plan visits a Fallback store, or is withheld, only when no
\* route over all the other stores the driver can be sent to first, or over all
\* of those, can be driven (pickupStoreRouting.service.ts:815-870, 1036-1061).
FallbackLast ==
    LET within == {s \in map.stores : Reachable(Driver, s)}
    IN  pass = "done" /\ map.types # {} /\ Cardinality(map.types) <= MaxStops
        /\ (\A type \in map.types, priority \in Priorities :
                Cardinality(Rivals(type, priority)) <= Kept) =>
            /\ plan = NoPlan => ~ \E r \in Tours(within) : Drivable(r)
            /\ plan # NoPlan /\ (\E i \in DOMAIN plan : map.priority[plan[i]] = "FALLBACK") =>
                   ~ \E r \in Tours({s \in within : map.priority[s] # "FALLBACK"}) :
                        Drivable(r)
=============================================================================
