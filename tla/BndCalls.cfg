SPECIFICATION Spec
CONSTANTS
    Orders = {o1}
    Processes = {m1}
    Poll = 2
    ActivePoll = 1
    MaxRetry = 4
    RequestTime = 1
    RetryAfters = {3, 6}
    Hours = {0, 1, 2, 3, 5, 6, 7, 8, 9, 10}
    MaxTime = 10
    Servers = {p1, p2}
    HistoryPoll = 1
    OverdueAfter = 1
    HistoryEnd = 5
    ClaimTime = 1
    RetryWindow = 1
    KeyWindow = 3
    SendDelay = 1
    MaxAttempts = 2
    EmailEnd = 4
    Day = 4
    Week = 2
    Retry = 2
    MinGap = 1
    Lag = 0
    StatusPoll = 2
    Span = 1
    Fallback <- BndWeek
    Sites <- BndSites
    OpeningEnd = 10
    MaxFaults = 2
SYMMETRY Symmetric
INVARIANTS
    FreshCallsWereWaiting
    HistorySound
    EmailsSound
    HoursKept
PROPERTIES
    LoginAndRetryDelays
    ImplementsObserver
CHECK_DEADLOCK FALSE
