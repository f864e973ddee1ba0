------------------------------ MODULE BndOpening ------------------------------
(***************************************************************************)
(* The opening hours of B&D: the server's copy of the public feed          *)
(* (src/integrations/bnd/hours.ts), the schedule both sides read from it   *)
(* (schedule.ts, mirrored in bndSchedule.ts), and the browser that copies  *)
(* the server's and polls the waiting calls while B&D is open              *)
(* (bndStatusPolling.ts).                                                  *)
(*                                                                         *)
(* Time is counted in ticks and days have no daylight saving change.  A    *)
(* timer fires in the tick it is set for; a request ends within Span, with *)
(* an answer made at some moment in between or with a failure.  What B&D   *)
(* publishes may change, and the server may restart.                       *)
(***************************************************************************)
EXTENDS Integers

CONSTANTS
    Day, Week,      \* ticks of a day, days of a week
    Retry,          \* RETRY_MS
    MinGap, Lag,    \* the browser's 30 s and 3 s
    StatusPoll,     \* BND_STATUS_POLL_MS
    Span,           \* longest request
    Fallback,       \* BND_FALLBACK_HOURS.weekly
    Sites,          \* what B&D may publish: [weekly, daily]
    OpeningEnd, MaxFaults   \* bounds: last tick, failures, restarts and changes in all

VARIABLES
    now,
    site,           \* what B&D publishes
    provider,       \* the server's hours and refresh
    browser,        \* one signed-in page
    changed,        \* B&D changed what it had published
    faults          \* failures, restarts and changes so far

openingVars == <<now, site, provider, browser, changed, faults>>

\* A window holds ticks of a day, or of the whole time once it has a date.
Shut == [start |-> -1, end |-> -1]
Windows == {Shut} \cup {w \in [start : 0 .. Day, end : 0 .. Day] : w.start < w.end}
Weekly == [0 .. Week - 1 -> Windows]
None == [weekly |-> Fallback, date |-> -1, today |-> Shut, checked |-> -1,
         refreshAt |-> 0, source |-> "fallback"]

DayOf(t) == t \div Day
Dated(d, w) ==
    IF w = Shut THEN Shut ELSE [start |-> d * Day + w.start, end |-> d * Day + w.end]

Earlier(s, t) == IF s < t THEN s ELSE t
Latest(s, t) == IF s < t THEN t ELSE s

ASSUME BndOpeningAssumption ==
    /\ {Day, Week, Retry, MinGap, StatusPoll, Span} \subseteq Nat \ {0}
    /\ {Lag, OpeningEnd, MaxFaults} \subseteq Nat
    /\ MinGap <= Retry /\ Span <= Day
    /\ Fallback \in Weekly
    /\ Sites \subseteq [weekly : Weekly, daily : [0 .. DayOf(OpeningEnd) -> Windows]]

-----------------------------------------------------------------------------
\* A day has the published window of its date, or else of its weekday.
bndDayWindow(d, h) == IF h.date = d THEN h.today ELSE Dated(d, h.weekly[d % Week])

Started(t, h) == LET w == bndDayWindow(DayOf(t), h) IN w # Shut /\ w.start <= t
IsOpen(t, h) == Started(t, h) /\ t < bndDayWindow(DayOf(t), h).end

First(S) == CHOOSE n \in S : \A m \in S : n <= m

\* The opening of a later day, looked for a week ahead, or the next midnight.
NextOpening(t, h) ==
    LET ahead == {n \in 1 .. Week : bndDayWindow(DayOf(t) + n, h) # Shut}
    IN  IF ahead = {} THEN (DayOf(t) + 1) * Day
        ELSE bndDayWindow(DayOf(t) + First(ahead), h).start

nextChangeAt(t, h) ==
    LET w == bndDayWindow(DayOf(t), h)
    IN  IF w # Shut /\ t < w.start THEN w.start
        ELSE IF w # Shut /\ t < w.end THEN w.end
        ELSE NextOpening(t, h)

\* Mutant: the hours are not read again at the opening.
nextRefresh_Midnight(h, t) == (DayOf(t) + 1) * Day

nextRefresh(h, t) ==
    LET w == bndDayWindow(DayOf(t), h)
    IN  IF w # Shut /\ t < w.start THEN w.start ELSE (DayOf(t) + 1) * Day

Saved(h) == [h EXCEPT !.source = IF h.checked = -1 THEN "fallback" ELSE "cached"]

-----------------------------------------------------------------------------
NewPage == [calendar |-> None, readAt |-> 0, timer |-> 0, pc |-> "idle", since |-> 0]
NoAnswer == [weekly |-> Fallback, today |-> Shut]

OpeningInit ==
    /\ now = 0
    /\ site \in Sites
    /\ provider = [calendar |-> None, cache |-> None, initialized |-> FALSE, due |-> 0,
                   pc |-> "idle", since |-> 0, answer |-> NoAnswer]
    /\ browser = NewPage
    /\ changed = FALSE /\ faults = 0

\* Timers fire in time and requests end in time; a status request ends at closing.
ProviderInTime ==
    IF provider.pc = "idle" THEN provider.initialized /\ now < provider.due
    ELSE now < provider.since + Span
BrowserInTime ==
    CASE browser.pc = "idle" -> now < browser.timer
      [] browser.pc = "status" -> now < browser.since + Span /\ IsOpen(now, browser.calendar)
      [] OTHER -> now < browser.since + Span

OpeningTick ==
    /\ now < OpeningEnd /\ ProviderInTime /\ BrowserInTime
    /\ now' = now + 1
    /\ UNCHANGED <<site, provider, browser, changed, faults>>

Fault == faults < MaxFaults /\ faults' = faults + 1
NoFault == UNCHANGED faults

Publish ==
    /\ Fault
    /\ changed' = TRUE
    /\ site' \in Sites \ {site}
    /\ UNCHANGED <<now, provider, browser>>

-----------------------------------------------------------------------------
ProviderStep == UNCHANGED <<now, site, browser, changed>>

\* The first refresh of a process reads the saved hours, if it can.
refreshIfDue ==
    /\ provider.pc = "idle" /\ (provider.initialized => now >= provider.due)
    /\ LET asked == [provider EXCEPT !.initialized = TRUE, !.pc = "asked", !.since = now]
           unread == ~provider.initialized /\ provider.cache # None
       IN  \/ unread /\ NoFault
              /\ provider' = [asked EXCEPT !.calendar = [provider.cache EXCEPT !.source = "cached"]]
           \/ (IF unread THEN Fault ELSE NoFault) /\ provider' = asked
    /\ ProviderStep

FeedAnswers ==
    /\ provider.pc = "asked"
    /\ provider' = [provider EXCEPT !.pc = "answered",
                        !.answer = [weekly |-> site.weekly,
                                    today |-> Dated(DayOf(now), site.daily[DayOf(now)])]]
    /\ NoFault /\ ProviderStep

\* The day the answer is read gives its date; a window of another day is invalid,
\* a closed day has none.
Valid(answer) == answer.today # Shut => DayOf(answer.today.start) = DayOf(now)

parseBndPublicHours ==
    /\ provider.pc = "answered" /\ Valid(provider.answer)
    /\ LET read == [weekly |-> provider.answer.weekly, date |-> DayOf(now),
                    today |-> provider.answer.today, checked |-> now,
                    refreshAt |-> now, source |-> "website"]
           due == nextRefresh(read, now)
       IN  provider' = [provider EXCEPT !.calendar = [read EXCEPT !.refreshAt = due],
                                        !.due = due, !.pc = "saving", !.answer = NoAnswer]
    /\ NoFault /\ ProviderStep

RefreshFails ==
    /\ provider.pc \in {"asked", "answered"}
    /\ LET due == Earlier(now + Retry, nextRefresh(provider.calendar, now))
       IN  provider' = [provider EXCEPT
                !.calendar = [Saved(provider.calendar) EXCEPT !.refreshAt = due],
                !.due = due, !.pc = "saving", !.answer = NoAnswer]
    /\ IF provider.pc = "answered" /\ ~Valid(provider.answer) THEN NoFault ELSE Fault
    /\ ProviderStep

SaveEnds ==
    /\ provider.pc = "saving"
    /\ LET retry == Earlier(provider.due, now + Retry)
           idle == [provider EXCEPT !.pc = "idle", !.since = 0]
       IN  \/ NoFault /\ provider' = [idle EXCEPT !.cache = provider.calendar]
           \/ Fault /\ provider' = [idle EXCEPT !.calendar.refreshAt = retry, !.due = retry]
    /\ ProviderStep

\* A process keeps only what it saved.
OpeningRestart ==
    /\ Fault
    /\ provider' = [provider EXCEPT !.calendar = None, !.initialized = FALSE,
                                    !.due = 0, !.pc = "idle", !.since = 0, !.answer = NoAnswer]
    /\ ProviderStep

-----------------------------------------------------------------------------
BrowserStep == UNCHANGED <<now, site, provider, changed>>

\* Mutant: the page sleeps through its next reading of the hours.
schedule_StatusOnly(page) ==
    LET change == nextChangeAt(now, page.calendar)
        next == IF IsOpen(now, page.calendar) THEN Earlier(now + StatusPoll, change) ELSE change
    IN  [page EXCEPT !.pc = "idle", !.since = 0, !.timer = Latest(now + 1, next)]

schedule(page) ==
    LET change == nextChangeAt(now, page.calendar)
        next == IF IsOpen(now, page.calendar) THEN Earlier(now + StatusPoll, change) ELSE change
    IN  [page EXCEPT !.pc = "idle", !.since = 0, !.timer = Latest(now + 1, Earlier(next, page.readAt))]

\* With its hours read, a poll asks for the calls if B&D is open.
Decided(page) ==
    IF IsOpen(now, page.calendar) THEN [page EXCEPT !.pc = "status", !.since = now, !.timer = 0]
    ELSE schedule(page)

\* The timer, or a page brought to the front.
poll ==
    /\ browser.pc = "idle"
    /\ browser' = IF now >= browser.readAt THEN [browser EXCEPT !.pc = "hours", !.since = now, !.timer = 0]
                  ELSE Decided(browser)
    /\ NoFault /\ BrowserStep

\* The page copies what the server has, or keeps its own.
HoursEnd ==
    /\ browser.pc = "hours"
    /\ LET h == provider.calendar
       IN  \/ NoFault
              /\ browser' = Decided([browser EXCEPT !.calendar = h,
                    !.readAt = IF h.refreshAt = 0 THEN now + Retry
                               ELSE Latest(now + MinGap, h.refreshAt + Lag)])
           \/ Fault
              /\ browser' = Decided([browser EXCEPT !.calendar = Saved(@), !.readAt = now + Retry])
    /\ BrowserStep

StatusEnds ==
    /\ browser.pc = "status"
    /\ browser' = schedule(browser)
    /\ NoFault /\ BrowserStep

\* A new session polls anew and drops what the last one asked for; the page keeps
\* the hours.
Login ==
    /\ browser.readAt # 0
    /\ browser' = [NewPage EXCEPT !.calendar = browser.calendar, !.timer = now]
    /\ NoFault /\ BrowserStep

OpeningNext ==
    \/ OpeningTick \/ Publish
    \/ refreshIfDue \/ FeedAnswers \/ parseBndPublicHours \/ RefreshFails \/ SaveEnds
    \/ OpeningRestart
    \/ poll \/ HoursEnd \/ StatusEnds \/ Login

OpeningSpec == OpeningInit /\ [][OpeningNext]_openingVars

-----------------------------------------------------------------------------
ConfirmedSincePoint(h) ==
    h.checked >= IF Started(now, h) THEN bndDayWindow(DayOf(now), h).start ELSE DayOf(now) * Day

\* The hours were confirmed since midnight and since the opening, or are about to
\* be read again: the server refreshes "at startup, Toronto midnight, and that day's
\* opening" and "retries in 15 minutes" (docs/bnd-alerts.md:81-95), and a page, which
\* waits for the server, soon after it (bndStatusPolling.ts:45-56).
ConfirmedOrRetried ==
    /\ provider.pc = "idle" /\ provider.initialized =>
           provider.due <= now + Retry \/ ConfirmedSincePoint(provider.calendar)
    /\ browser.pc = "idle" =>
           \/ Latest(browser.timer, browser.readAt) <= now + Retry + Lag
           \/ ConfirmedSincePoint(browser.calendar)

\* Until the next change the schedule says what it says now, so a timer set for it
\* misses no opening and no closing (schedule.ts:78-94).
ScheduleHolds ==
    \A h \in {provider.calendar, browser.calendar} :
        /\ nextChangeAt(now, h) > now
        /\ \A t \in now .. nextChangeAt(now, h) - 1 : IsOpen(t, h) = IsOpen(now, h)

\* A date has the hours B&D published for it. Only a day closed for the whole of it
\* may be read into the next one, by an answer on its way at midnight.
PublishedForItsDate ==
    ~changed /\ provider.calendar.date >= 0 =>
        LET d == provider.calendar.date
        IN  \/ provider.calendar.today = Dated(d, site.daily[d])
            \/ /\ provider.calendar.today = Shut /\ d > 0 /\ site.daily[d - 1] = Shut
               /\ provider.calendar.checked < d * Day + Span

\* B&D is open when its hours say so, as last published, and the hours are read again
\* when they may have changed (integrations/bnd/hours.ts, schedule.ts,
\* bndStatusPolling.ts).
HoursKept == ConfirmedOrRetried /\ ScheduleHolds /\ PublishedForItsDate
=============================================================================
