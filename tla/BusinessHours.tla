---------------------------- MODULE BusinessHours ----------------------------
(***************************************************************************)
(* The shop's own hours: read from Google once a day at most, whichever    *)
(* process does it (src/services/businessHours.service.ts), and answered   *)
(* from the saved schedule (businessHoursSchedule.ts).                     *)
(*                                                                         *)
(* Time is counted in minutes, of which a day has a few; time 0 is a       *)
(* Sunday's midnight, and no clock changes.  A period has the minute it    *)
(* opens and the one it closes, of the week or of all time, the close -1   *)
(* when it has none.                                                       *)
(***************************************************************************)
EXTENDS Integers

CONSTANTS
    Processes,
    Day, Days,      \* minutes of a day, days of a week
    SlotStart,      \* the minute of the day a slot begins, 03:00
    Places,         \* what Google may answer: [current, regular]
    Span,           \* longest refresh
    MaxTime         \* bound: last minute explored


VARIABLES
    now,
    attempt,        \* the last slot that was claimed
    schedule,       \* the saved schedule
    refresh,        \* each process's refresh
    slotCalls       \* paid calls made in each slot

vars == <<now, attempt, schedule, refresh, slotCalls>>

Week == Day * Days
DayStart(t) == (t \div Day) * Day
dailyHoursSlot(t) == (t - SlotStart) \div Day
Slots == dailyHoursSlot(0) .. dailyHoursSlot(MaxTime)

IsPeriod(p) == p.open \in Nat /\ p.close \in Nat \cup {-1}
IsWeekly(hours) ==
    /\ hours.kind = "weekly"
    /\ \A p \in hours.periods : IsPeriod(p) /\ p.open < Week /\ p.close < Week
IsDated(hours) == hours.kind = "dated" /\ \A p \in hours.periods : IsPeriod(p)

\* Regular hours have no dates; an answer may lack either.
BusinessHoursAssumption ==
    /\ Day \in Nat \ {0} /\ Days \in Nat \ {0} /\ SlotStart \in 0 .. Day - 1
    /\ Span \in Nat \ {0} /\ MaxTime \in Nat \ {0}
    /\ \A place \in Places :
          /\ place.regular.kind = "none" \/ IsWeekly(place.regular)
          /\ \/ place.current.kind = "none"
             \/ IsWeekly(place.current) \/ IsDated(place.current)

NoHours == [kind |-> "none", periods |-> {}]
NotSaved == [fetched |-> -1, current |-> NoHours, regular |-> NoHours]

-----------------------------------------------------------------------------
\* Google's current hours cover the date they were read and the days of one week.
LastCurrent(s) == DayStart(s.fetched) + Week
UsesCurrent(s, t) == DayStart(t) < LastCurrent(s) /\ s.current.kind # "none"
HoursAt(s, t) == IF UsesCurrent(s, t) THEN s.current ELSE s.regular

\* Dated periods close after they open; a weekly one that never closes is the whole
\* week's.
DatedClose(s, p) == IF p.close = -1 THEN LastCurrent(s) ELSE p.close
PeriodValid(s, kind, p) ==
    IF kind = "dated" THEN DatedClose(s, p) > p.open
    ELSE p.close = -1 => p.open = 0

\* A schedule that cannot be read answers nothing.
Answers(s, t) ==
    /\ s # NotSaved /\ s.fetched <= t
    /\ HoursAt(s, t).kind # "none"
    /\ \A p \in HoursAt(s, t).periods : PeriodValid(s, HoursAt(s, t).kind, p)

\* Mutant: the week after this one is forgotten.
Repeated_NotNext(p, t) ==
    LET sunday == (t \div Week) * Week
        close == IF p.close <= p.open THEN p.close + Week ELSE p.close
    IN  {[start |-> sunday + p.open + k, end |-> sunday + close + k] : k \in {-Week, 0}}

\* The period in the week before, in this week and in the next.
Repeated(p, t) ==
    LET sunday == (t \div Week) * Week
        close == IF p.close <= p.open THEN p.close + Week ELSE p.close
    IN  {[start |-> sunday + p.open + k, end |-> sunday + close + k] : k \in {-Week, 0, Week}}

Earlier(a, b) == IF a < b THEN a ELSE b
Earliest(times) == CHOOSE t \in times : \A u \in times : t <= u

Intervals(s, t) ==
    IF HoursAt(s, t).kind = "dated"
    THEN {[start |-> p.open, end |-> Earlier(DatedClose(s, p), LastCurrent(s))] :
              p \in HoursAt(s, t).periods}
    ELSE UNION {IF p.close = -1 THEN {[start |-> DayStart(t) - Week, end |-> DayStart(t) + Week]}
                ELSE Repeated(p, t) : p \in HoursAt(s, t).periods}

isOpen(s, t) == \E i \in Intervals(s, t) : i.start <= t /\ t < i.end

\* The next opening that is announced, -1 when there is none.
nextOpen(s, t) ==
    LET starts == {i.start : i \in {j \in Intervals(s, t) : j.start > t}}
    IN  IF isOpen(s, t) \/ starts = {} THEN -1
        ELSE IF UsesCurrent(s, t) /\ Earliest(starts) >= LastCurrent(s) THEN -1
        ELSE Earliest(starts)

-----------------------------------------------------------------------------
Init ==
    /\ now = 0
    /\ attempt = -2
    /\ schedule = NotSaved
    /\ refresh = [p \in Processes |-> [pc |-> "idle", began |-> 0]]
    /\ slotCalls = [s \in Slots |-> 0]

Tick ==
    /\ now < MaxTime
    /\ \A p \in Processes : refresh[p].pc # "idle" => now < refresh[p].began + Span
    /\ now' = now + 1
    /\ UNCHANGED <<attempt, schedule, refresh, slotCalls>>

\* The interval of a process, one refresh at a time, when the slot looks unclaimed.
run(p) ==
    /\ refresh[p].pc = "idle" /\ attempt < dailyHoursSlot(now)
    /\ refresh' = [refresh EXCEPT ![p] = [pc |-> "due", began |-> now]]
    /\ UNCHANGED <<now, attempt, schedule, slotCalls>>

\* Mutant: the claim does not look at the slot another process wrote.
claimSlot_Unconditional(p) ==
    LET slot == dailyHoursSlot(refresh[p].began)
    IN  /\ refresh[p].pc = "due"
        /\ attempt' = slot
        /\ slotCalls' = [slotCalls EXCEPT ![slot] = @ + 1]
        /\ refresh' = [refresh EXCEPT ![p].pc = "calling"]
        /\ UNCHANGED <<now, schedule>>

\* One statement claims the slot, unless another process did.
claimSlot(p) ==
    LET slot == dailyHoursSlot(refresh[p].began)
    IN  /\ refresh[p].pc = "due"
        /\ IF attempt < slot
           THEN /\ attempt' = slot
                /\ slotCalls' = [slotCalls EXCEPT ![slot] = @ + 1]
                /\ refresh' = [refresh EXCEPT ![p].pc = "calling"]
           ELSE /\ refresh' = [refresh EXCEPT ![p] = [pc |-> "idle", began |-> 0]]
                /\ UNCHANGED <<attempt, slotCalls>>
        /\ UNCHANGED <<now, schedule>>

\* What answers nothing at once is not saved.
refreshBusinessHours(p) ==
    /\ refresh[p].pc = "calling"
    /\ \E place \in Places :
          LET read == [fetched |-> refresh[p].began, current |-> place.current,
                       regular |-> place.regular]
          IN  schedule' = IF Answers(read, refresh[p].began) THEN read ELSE schedule
    /\ refresh' = [refresh EXCEPT ![p] = [pc |-> "idle", began |-> 0]]
    /\ UNCHANGED <<now, attempt, slotCalls>>

\* The request fails, or the process ends and another one starts in its place.
RefreshFails(p) ==
    /\ refresh[p].pc # "idle"
    /\ refresh' = [refresh EXCEPT ![p] = [pc |-> "idle", began |-> 0]]
    /\ UNCHANGED <<now, attempt, schedule, slotCalls>>

Next ==
    \/ Tick
    \/ \E p \in Processes :
          run(p) \/ claimSlot(p) \/ refreshBusinessHours(p) \/ RefreshFails(p)

Spec == Init /\ [][Next]_vars

-----------------------------------------------------------------------------
\* "Restarts, failures and overlapping instances cannot spend again in the same
\* slot" (businessHours.service.ts:28-29).
OncePerSlot == \A s \in Slots : slotCalls[s] <= 1

\* The minutes a set of periods covers, without the code's intervals.
InWeek(p, t) ==
    LET m == t % Week
    IN  \/ p.close = -1
        \/ p.open < p.close /\ p.open <= m /\ m < p.close
        \/ p.open >= p.close /\ (p.open <= m \/ m < p.close)
Covered(s, t) ==
    LET hours == HoursAt(s, t)
    IN  IF hours.kind = "dated"
        THEN \E p \in hours.periods : p.open <= t /\ (p.close = -1 \/ t < p.close)
        ELSE \E p \in hours.periods : InWeek(p, t)

\* The shop is said to be open in the minutes its hours cover, and the opening that is
\* announced is the next one: no minute before it is covered, it is, and when none is
\* announced none of the coming week is, as far as the same hours reach
\* (businessHoursSchedule.ts:45-92).
AnsweredAsPublished ==
    Answers(schedule, now) =>
        LET next == nextOpen(schedule, now)
            reach == IF UsesCurrent(schedule, now) THEN LastCurrent(schedule) - 1 ELSE now + Week
        IN  /\ isOpen(schedule, now) <=> Covered(schedule, now)
            /\ ~isOpen(schedule, now) =>
                   IF next = -1 THEN \A t \in now .. reach : ~Covered(schedule, t)
                   ELSE /\ Covered(schedule, next)
                        /\ \A t \in now .. next - 1 : ~Covered(schedule, t)

\* A schedule that was saved answers until its current hours end (the fetch date and
\* six days), without another call; a regular one always.
KeepsAnswering ==
    schedule # NotSaved /\ (schedule.current.kind = "none" \/ now < LastCurrent(schedule)) =>
        Answers(schedule, now)
=============================================================================
