----------------------------- MODULE MCServices -----------------------------
(***************************************************************************)
(* A small instance, for TLC, of the services that keep a state of their   *)
(* own beside the orders: the loyalty ledger, the staff accounts, the      *)
(* duplicate guard, the synthetic budget, the assignment pushes, the       *)
(* refresh of store hours, the dispatcher boards, the hours and routes of  *)
(* the pickup stores, and the shop's own hours.  None of them reads what   *)
(* another one writes, so each behaviour runs one of them, and what it     *)
(* shows of its variables holds of any interleaving with the others.       *)
(***************************************************************************)
EXTENDS Loyalty, Services, Sequences, TLC

VARIABLE part   \* the machine that runs

loyaltyVars == vars
staffVars == <<account, sessions, resets, changes, epoch, req>>
guardVars == <<expires, sub>>
syntheticVars == <<policy, created, emailed, lock, synCall, late>>
pushVars == <<assigned, token, issued, dead, notice, sends, stopped>>
refreshVars == <<checked, hours, failed, place, edits, run, paid>>
boardVars == <<board, edit, saves, note, shown, toggles, help, handled>>
hoursVars == <<store, arrival, verdict>>
routingVars == <<map, phase, pass, unseen, baseline, preferred, plan>>
shopVars == <<attempt, schedule, refresh, slotCalls>>

-----------------------------------------------------------------------------
\* Stores for StoreHours: a week of two days of four minutes.  One or two weekly
\* periods, or dated ones over regular hours that never close, or an override
\* over either.
NoHours == [kind |-> "none", periods |-> <<>>]
Weekly(periods) == [kind |-> "weekly", periods |-> periods]
Dated(periods) == [kind |-> "dated", periods |-> periods]
Always == Weekly(<<[open |-> 0, close |-> -1]>>)
NoOverride == [day \in {} |-> 0]

StoreWith(override, current, regular) ==
    [operational |-> TRUE, override |-> override, current |-> current, regular |-> regular]

UpToTwo(first, second) ==
    {<<>>} \cup {<<p>> : p \in second} \cup {<<p, q>> : p \in first, q \in second}

WeeklyPeriods == [open : 0 .. 7, close : -1 .. 7]
DatedPeriods == [open : {3, 6, 9}, close : {-1, 4, 6, 8, 11}]
Entries ==
    {[closed |-> TRUE, readable |-> TRUE, open |-> 0, close |-> 0],
     [closed |-> FALSE, readable |-> FALSE, open |-> 0, close |-> 0]}
    \cup [closed : {FALSE}, readable : {TRUE}, open : 0 .. 3, close : 0 .. 3]

HoursStores ==
    {StoreWith(NoOverride, NoHours, Weekly(ps)) :
        ps \in UpToTwo([open : 0 .. 4, close : 0 .. 7], WeeklyPeriods)}
    \cup {StoreWith(NoOverride, Dated(ps), Always) : ps \in UpToTwo(DatedPeriods, DatedPeriods)}
    \cup {StoreWith([d \in {day} |-> entry], current, Always) :
            day \in {1, 2}, entry \in Entries, current \in {NoHours, Dated(<<>>)}}
    \cup {StoreWith(NoOverride, NoHours, NoHours),
          [StoreWith(NoOverride, NoHours, Always) EXCEPT !.operational = FALSE]}

-----------------------------------------------------------------------------
\* Maps for StoreRouting: the driver, the customer and the stores lie on a line
\* and a leg takes as long as it is; the legs in "cut" have no route.
Away(a, b) == IF a < b THEN b - a ELSE a - b

\* "open" holds the times at which a store takes an arrival.
OnALine(kind, priority, at, open, cut) ==
    LET stores == DOMAIN kind
        spot == [n \in stores \cup {0, -1} |->
                    IF n = 0 THEN 0 ELSE IF n = -1 THEN 4 ELSE at[n]]
    IN  [types |-> {kind[s] : s \in stores}, stores |-> stores,
         kind |-> kind, priority |-> priority, open |-> open,
         drive |-> [leg \in (stores \cup {0}) \X (stores \cup {-1}) |->
                        IF leg \in cut THEN -1 ELSE Away(spot[leg[1]], spot[leg[2]])]]

Ranks == {"PREFERRED", "STANDARD", "FALLBACK"}

OneType ==
    {OnALine(<<1, 1, 1>>, priority, at, open, {}) :
        priority \in [1 .. 3 -> Ranks], at \in [1 .. 3 -> {1, 3, 5}],
        open \in [1 .. 3 -> {0 .. 3, 2 .. 9}]}
TwoTypes ==
    {OnALine(<<1, 1, 2, 2>>, priority, at, [s \in 1 .. 4 |-> 0 .. 20], cut) :
        priority \in [1 .. 4 -> {"PREFERRED", "STANDARD"}], at \in [1 .. 4 -> {1, 5}],
        cut \in {{}, {<<1, 3>>, <<3, -1>>}}}
    \cup {OnALine(<<1, 2, 2>>, priority, at, open, {}) :
            priority \in [1 .. 3 -> Ranks], at \in [1 .. 3 -> {1, 5}],
            open \in [1 .. 3 -> {0 .. 3, 2 .. 9}]}
Degenerate ==
    {OnALine(<<>>, <<>>, <<>>, <<>>, cut) : cut \in {{}, {<<0, -1>>}}}
    \cup {OnALine(<<1, 2, 3>>, [s \in 1 .. 3 |-> "STANDARD"], <<1, 1, 1>>,
             [s \in 1 .. 3 |-> 0 .. 20], {})}

LineMaps == OneType \cup TwoTypes \cup Degenerate

-----------------------------------------------------------------------------
\* The shop's weekly and dated hours over a week of two days of four minutes.
ShopPeriod(open, close) == [open |-> open, close |-> close]
ShopWeekly(periods) == [kind |-> "weekly", periods |-> periods]
ShopDated(periods) == [kind |-> "dated", periods |-> periods]
OnlyRegular ==
    {ShopWeekly({ShopPeriod(a, b)}) : a \in {0, 3, 6}, b \in {-1, 0, 3, 5}}
    \cup {ShopWeekly({ShopPeriod(a, 2), ShopPeriod(5, 7)}) : a \in {0, 7}}
WithCurrent ==
    {ShopDated({ShopPeriod(a, b)}) : a \in {1, 5, 9}, b \in {-1, 4, 6, 10}}
    \cup {ShopDated({}), ShopDated({ShopPeriod(2, 3), ShopPeriod(6, 9)})}
ShopPlaces ==
    {[current |-> [kind |-> "none", periods |-> {}], regular |-> w] : w \in OnlyRegular}
    \cup {[current |-> d, regular |-> ShopWeekly({ShopPeriod(1, 3)})] : d \in WithCurrent}

-----------------------------------------------------------------------------
ASSUME InstancesAssumption == ServicesAssumption

Parts == {"loyalty", "staff", "guard", "synthetic", "push", "refresh", "boards",
          "hours", "routing", "shop"}

\* A machine with several initial states rests in one while another one runs.
PartsInit ==
    /\ part \in Parts
    /\ Init /\ StaffRows!Init
    /\ part # "loyalty" => customer = [c \in Customers |-> NewAccount(0)]
    /\ part # "staff" => \A u \in Staff : account[u] = StaffRows!AnyAccount
    /\ Guard!Init /\ Synthetic!Init /\ Push!Init /\ Refresh!Init /\ Boards!Init
    /\ IF part = "hours" THEN StoreOpen!HoursInit
       ELSE store = NoHours /\ arrival = 0 /\ verdict = ""
    /\ IF part = "routing" THEN Routing!RoutingInit
       ELSE /\ map = NoHours /\ phase = "primary" /\ pass = "shortlist" /\ unseen = {}
            /\ baseline = <<>> /\ preferred = <<>> /\ plan = <<>>
    /\ Shop!Init

\* Bound: one order is edited, while one call at most is in flight.
EditsBounded ==
    LET edited == {o \in Orders : order[o].notes = "typed"}
        inFlight == {k \in Calls : call[k].pc # "idle"}
    IN  edited = {} \/ (Cardinality(edited) <= 1 /\ Cardinality(inFlight) <= 1)

LoyaltyRuns ==
    /\ part = "loyalty" /\ Next /\ EditsBounded'
    /\ UNCHANGED <<now, staffVars, guardVars, syntheticVars, pushVars,
                   refreshVars, boardVars, hoursVars, routingVars, shopVars>>
\* Bound: three tokens are signed, for sessions or for password changes.
TokensBounded == Cardinality(sessions) + Cardinality(resets) <= 3

StaffRuns ==
    /\ part = "staff" /\ StaffRows!Next /\ TokensBounded'
    /\ UNCHANGED <<loyaltyVars, now, guardVars, syntheticVars, pushVars,
                   refreshVars, boardVars, hoursVars, routingVars, shopVars>>
GuardRuns ==
    /\ part = "guard" /\ Guard!Next
    /\ UNCHANGED <<loyaltyVars, staffVars, syntheticVars, pushVars,
                   refreshVars, boardVars, hoursVars, routingVars, shopVars>>
SyntheticRuns ==
    /\ part = "synthetic" /\ Synthetic!Next
    /\ UNCHANGED <<loyaltyVars, now, staffVars, guardVars, pushVars,
                   refreshVars, boardVars, hoursVars, routingVars, shopVars>>
PushRuns ==
    /\ part = "push" /\ Push!Next
    /\ UNCHANGED <<loyaltyVars, now, staffVars, guardVars, syntheticVars,
                   refreshVars, boardVars, hoursVars, routingVars, shopVars>>
RefreshRuns ==
    /\ part = "refresh" /\ Refresh!Next
    /\ UNCHANGED <<loyaltyVars, staffVars, guardVars, syntheticVars,
                   pushVars, boardVars, hoursVars, routingVars, shopVars>>
BoardsRun ==
    /\ part = "boards" /\ Boards!Next
    /\ UNCHANGED <<loyaltyVars, now, staffVars, guardVars, syntheticVars, pushVars,
                   refreshVars, hoursVars, routingVars, shopVars>>
HoursRun ==
    /\ part = "hours" /\ StoreOpen!Ask
    /\ UNCHANGED <<loyaltyVars, now, staffVars, guardVars, syntheticVars, pushVars,
                   refreshVars, boardVars, routingVars, shopVars>>
RoutingRuns ==
    /\ part = "routing" /\ Routing!RoutingNext
    /\ UNCHANGED <<loyaltyVars, now, staffVars, guardVars, syntheticVars, pushVars,
                   refreshVars, boardVars, hoursVars, shopVars>>
ShopRuns ==
    /\ part = "shop" /\ Shop!Next
    /\ UNCHANGED <<loyaltyVars, staffVars, guardVars, syntheticVars, pushVars,
                   refreshVars, boardVars, hoursVars, routingVars>>

PartsNext ==
    /\ \/ LoyaltyRuns \/ StaffRuns \/ GuardRuns \/ SyntheticRuns \/ PushRuns
       \/ RefreshRuns \/ BoardsRun \/ HoursRun \/ RoutingRuns
       \/ ShopRuns
    /\ UNCHANGED part

partsVars == <<part, loyaltyVars, now, staffVars, guardVars, syntheticVars,
                  pushVars, refreshVars, boardVars, hoursVars, routingVars, shopVars>>

PartsSpec == PartsInit /\ [][PartsNext]_partsVars

\* In each part the slots of the calls in flight, the processes and the administrators
\* are interchangeable, and so are the passwords, the customers, the orders and the
\* submissions. The parts share the names, for only one runs.
Slots == StaffRequests \cup Calls \cup Processes \cup RunSlots \cup Administrators

Symmetric ==
    Permutations(Slots) \cup Permutations(Passwords \cup Customers)
        \cup Permutations(Orders \cup Submissions)
=============================================================================
