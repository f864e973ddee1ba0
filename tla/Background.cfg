CONSTANTS
    Orders = {o1}
    Editors = {e1}
    Sessions = {}
    Calls = {}
    Workers = {w1, w2}
    NoOrder = NoOrder
    NoEditor = NoEditor
    NoSession = NoSession
    EDIT_PAUSE_LEASE_MS = 1
    AlertAfter = 2
    MaxAge = 4
    KeyWindow = 4
    CheckTime = 1
    StaleAfter = 2
    CANDIDATE_LIMIT = 1
    MaxTime = 5
    Events = {e1, e2, e3}
    MaxBuffer = 2
    MaxFaults = 2
    Slots = 2
    MaxOrders = 2
    Manual = {2}
    PageSize = 1
    MaxSession = 1
    MaxUser = 1
SPECIFICATION TasksSpec
INVARIANT SavedOrBuffered
PROPERTIES OverdueOrdersAlerted BufferDrains BoardStepsSound OrdersNoticed
\* Every order closed and the clock at its bound: nothing is left to do.
CHECK_DEADLOCK FALSE
