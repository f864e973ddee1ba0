----------------------------- MODULE StoreHours -----------------------------
(***************************************************************************)
(* Whether a pickup store is open when a driver would arrive, and stays    *)
(* open for the closing buffer after it                                    *)
(* (src/src/services/pickupStoreRouting.service.ts).                       *)
(*                                                                         *)
(* Three sources of hours are read in order: the manual override of the    *)
(* date of arrival, Google's current hours, whose periods carry dates, and *)
(* Google's regular hours, whose periods repeat every week.  The first one *)
(* that says anything decides.                                             *)
(*                                                                         *)
(* Times are minutes of the store's local clock; minute 0 is the start of  *)
(* the first day of a week.  A day has DayLength minutes, a week WeekDays  *)
(* days.  The clock changes of daylight saving are left out.               *)
(***************************************************************************)
EXTENDS Integers, Sequences

CONSTANTS
    DayLength, WeekDays,    \* 1440 and 7 in the code
    Buffer,                 \* PICKUP_STORE_CLOSING_BUFFER_MINUTES
    Stores,                 \* the stores whose hours are asked for
    Arrivals                \* the arrival times asked about

Week == DayLength * WeekDays

\* A period whose closing time is Never stays open.
Never == -1

\* Hours as Google publishes them: periods of a week, or of all time.
IsHours(hours) ==
    /\ hours.kind \in {"none", "dated", "weekly"}
    /\ hours.periods \in Seq([open : Nat, close : Nat \cup {Never}])
    /\ hours.kind = "weekly" =>
           \A i \in DOMAIN hours.periods :
               hours.periods[i].open < Week /\ hours.periods[i].close < Week

\* An override has minutes of its day.
IsStore(s) ==
    /\ IsHours(s.current) /\ IsHours(s.regular)
    /\ \A day \in DOMAIN s.override :
           {s.override[day].open, s.override[day].close} \subseteq 0 .. DayLength - 1

StoreHoursAssumption ==
    /\ DayLength \in Nat \ {0} /\ WeekDays \in Nat \ {0}
    /\ Buffer \in Nat /\ Buffer < DayLength
    /\ Arrivals \subseteq Nat
    /\ \A s \in Stores : IsStore(s)

DayOf(t) == t \div DayLength

\* What the code answers.
Verdicts == {"BUSINESS_NOT_OPERATIONAL", "MANUAL_CLOSED", "HOURS_UNAVAILABLE",
             "ELIGIBLE", "NOT_OPEN_AT_ARRIVAL", "CLOSES_WITHIN_BUFFER"}

VARIABLES
    store,      \* [operational, override, current, regular]
    arrival,
    verdict     \* the answer, or "" before the question is put

hoursVars == <<store, arrival, verdict>>

-----------------------------------------------------------------------------
\* The end of the span that opens at "from", whose closing time has been read
\* from the same day or week: at or before the opening it means the next one.
ClosingAfter(from, to, cycle) == IF to <= from THEN to + cycle ELSE to

\* Inside the span from..to, the end of the buffer decides.
Within(buffered, to) ==
    IF to = Never \/ buffered <= to THEN "ELIGIBLE" ELSE "CLOSES_WITHIN_BUFFER"

\* The override of the date of arrival; "" when there is none.
inManualOverride(at, overrides) ==
    IF DayOf(at) \notin DOMAIN overrides THEN ""
    ELSE LET entry == overrides[DayOf(at)]
             midnight == DayOf(at) * DayLength
             open == midnight + entry.open
             close == ClosingAfter(open, midnight + entry.close, DayLength)
         IN  IF entry.closed THEN "MANUAL_CLOSED"
             ELSE IF ~ entry.readable THEN "HOURS_UNAVAILABLE"
             ELSE IF at < open \/ at >= close THEN "NOT_OPEN_AT_ARRIVAL"
             ELSE Within(at + Buffer, close)

\* The first period that holds the time of arrival decides.
FirstSaid(says) ==
    LET speaking == {i \in DOMAIN says : says[i] # ""}
    IN  IF speaking = {} THEN "NOT_OPEN_AT_ARRIVAL"
        ELSE says[CHOOSE i \in speaking : \A j \in speaking : i <= j]

DatedSays(at, p) ==
    IF at < p.open THEN ""
    ELSE IF p.close = Never THEN "ELIGIBLE"
    ELSE LET close == ClosingAfter(p.open, p.close, DayLength)
         IN  IF at >= close THEN "" ELSE Within(at + Buffer, close)

evaluateExplicitDatePeriods(at, periods) ==
    FirstSaid([i \in DOMAIN periods |-> DatedSays(at, periods[i])])

\* Mutant: the arrival is looked for in its own week only.
WeeklySays_ThisWeek(at, p) ==
    LET minute == at % Week
        buffered == (at + Buffer) % Week
        lasting == IF buffered < minute THEN buffered + Week ELSE buffered
        close == ClosingAfter(p.open, p.close, Week)
    IN  IF p.close = Never THEN "ELIGIBLE"
        ELSE IF minute < p.open \/ minute >= close THEN ""
        ELSE Within(lasting, close)

\* A weekly period is met by the arrival of this week or, past the week's end,
\* by the arrival one week later on the same clock.
WeeklySays(at, p) ==
    LET minute == at % Week
        buffered == (at + Buffer) % Week
        lasting == IF buffered < minute THEN buffered + Week ELSE buffered
        close == ClosingAfter(p.open, p.close, Week)
        met == {offset \in {0, Week} :
                    minute + offset >= p.open /\ minute + offset < close}
    IN  IF p.close = Never THEN "ELIGIBLE"
        ELSE IF met = {} THEN ""
        ELSE Within(lasting + (CHOOSE o \in met : \A q \in met : o <= q), close)

evaluateWeeklyPeriods(at, periods) ==
    FirstSaid([i \in DOMAIN periods |-> WeeklySays(at, periods[i])])

\* Hours that were never fetched say nothing; hours without a period say the
\* store is shut.  One dated period makes all the hours dated.
evaluateGoogleHours(at, hours) ==
    CASE hours.kind = "none"   -> ""
      [] hours.kind = "dated"  -> evaluateExplicitDatePeriods(at, hours.periods)
      [] hours.kind = "weekly" -> evaluateWeeklyPeriods(at, hours.periods)

evaluatePickupStoreEligibility(s, at) ==
    LET manual == inManualOverride(at, s.override)
        current == evaluateGoogleHours(at, s.current)
        regular == evaluateGoogleHours(at, s.regular)
    IN  IF ~ s.operational THEN "BUSINESS_NOT_OPERATIONAL"
        ELSE IF manual # "" THEN manual
        ELSE IF current # "" THEN current
        ELSE IF regular # "" THEN regular
        ELSE "HOURS_UNAVAILABLE"

HoursInit ==
    /\ store \in Stores
    /\ arrival \in Arrivals
    /\ verdict = ""

Ask ==
    /\ verdict = ""
    /\ verdict' = evaluatePickupStoreEligibility(store, arrival)
    /\ UNCHANGED <<store, arrival>>

HoursSpec == HoursInit /\ [][Ask]_hoursVars

-----------------------------------------------------------------------------
\* The reference: the spans of time a store is open, laid out on one unbroken
\* clock.  An end of Never is beyond every time.
Length(open, close, cycle) == ((close - open - 1) % cycle) + 1

Far == arrival + Buffer + 2 * Week

\* In the week before the arrival's, in that one and in the next.
WeeklySpans(periods) ==
    {IF periods[i].close = Never THEN [from |-> 0, to |-> Far]
     ELSE LET from == arrival - (arrival % Week) + week + periods[i].open
          IN  [from |-> from,
               to |-> from + Length(periods[i].open, periods[i].close, Week)] :
     i \in DOMAIN periods, week \in {-Week, 0, Week}}

DatedSpans(periods) ==
    {[from |-> periods[i].open,
      to |-> IF periods[i].close = Never THEN Far
             ELSE IF periods[i].close > periods[i].open THEN periods[i].close
             ELSE periods[i].close + DayLength] : i \in DOMAIN periods}

OverrideSpans(day, entry) ==
    IF entry.closed \/ ~ entry.readable THEN {}
    ELSE {[from |-> day * DayLength + entry.open,
           to |-> day * DayLength + entry.open
                  + Length(entry.open, entry.close, DayLength)]}

OpenSpans ==
    IF DayOf(arrival) \in DOMAIN store.override
    THEN OverrideSpans(DayOf(arrival), store.override[DayOf(arrival)])
    ELSE LET hours == IF store.current.kind # "none" THEN store.current ELSE store.regular
         IN  CASE hours.kind = "none"   -> {}
               [] hours.kind = "dated"  -> DatedSpans(hours.periods)
               [] hours.kind = "weekly" -> WeeklySpans(hours.periods)

Apart(spans) ==
    \A a, b \in spans : a = b \/ a.to <= b.from \/ b.to <= a.from

StoreHoursTypeOK == verdict \in Verdicts \cup {""}

\* A store is eligible exactly when one of its opening spans holds both the
\* arrival and the closing buffer after it, across midnight and across the end
\* of the week, as long as its spans do not overlap; and it is never eligible
\* outside them (pickupStoreRouting.service.ts:407-575).
OpenForTheBuffer ==
    verdict # "" =>
        LET served == \E span \in OpenSpans :
                          span.from <= arrival /\ arrival < span.to
                          /\ arrival + Buffer <= span.to
        IN  /\ verdict = "ELIGIBLE" => served /\ store.operational
            /\ served /\ store.operational /\ Apart(OpenSpans) => verdict = "ELIGIBLE"

=============================================================================
