SPECIFICATION PartsSpec
CONSTANTS
    Customers = {p1, p2}
    Orders = {b1, b2, b3}
    NoOrder = NoOrder
    NoCustomer = NoCustomer
    Calls = {r1, r2}
    PerReward = 2
    MaxMonth = 2
    Staff = {s1}
    StaffRequests = {r1, r2}
    Passwords = {p1, p2}
    NoStaff = NoStaff
    MaxVersion = 2
    Submissions = {b1, b2, b3}
    Window = 2
    GuardEnd = 3
    SyntheticCalls = {b1, b2, b3}
    MaxOrders = 2
    MaxEmails = 2
    Drivers = {a1, a2}
    Notices = {1, 2}
    MaxToken = 3
    RunSlots = {r1, r2}
    PickupStores = {1}
    RefreshWeek = 3
    RunTime = 1
    RefreshEnd = 6
    MaxEdits = 1
    Administrators = {r1, r2}
    Standards = {1, 2}
    StandardsLimit = 1
    MaxSave = 2
    Processes = {r1, r2}
    Day = 4
    Days = 2
    SlotStart = 1
    ShopAnswers <- ShopPlaces
    Span = 1
    ShopEnd = 10
    Buffer = 2
    StoresAsked <- HoursStores
    ArrivalTimes = {4, 5, 6, 7, 8, 9, 10, 11}
    RouteMaps <- LineMaps
    Shortlisted = 1
    Extra = 2
    MaxStops = 2
SYMMETRY Symmetric
INVARIANTS
    RewardLedger
    RewardsAccounted
    LimitsKept
    NoBlindOverwrite
    StoresSound
PROPERTIES
    AccountsCurrent
    PushesSound
\* The maps are answered and the clocks are at their bound.
CHECK_DEADLOCK FALSE
