CONSTANTS
    Orders = {o1}
    Editors = {e1, e2}
    Sessions = {s1, s2}
    Calls = {k1, k2}
    NoOrder = NoOrder
    NoEditor = NoEditor
    NoSession = NoSession
    EDIT_PAUSE_LEASE_MS = 2
    MaxTime = 7
    Workers = {k1, k2}
    AlertAfter = 2
    MaxAge = 4
    KeyWindow = 4
    CheckTime = 1
    StaleAfter = 2
    CANDIDATE_LIMIT = 1
    Customers = {e1, e2}
    Phones = {p1}
    Jobs = {s1, s2}
    Callbacks = {k1, k2}
    PhoneOf <- OnePhone
    ProviderStatuses = {"queued", "delivered", "failed"}
    NoJob = NoJob
    NoKey = NoKey
    Quiet = 1
    Lapse = 1
    Consents = {TRUE, FALSE}
    Open = {1, 2}
    Limit = 1
    LastTime = 2
SPECIFICATION AllSpec
SYMMETRY Symmetric
CONSTRAINT Bounded
VIEW View
INVARIANTS TimingsSound AtMostOneAlert OneAttempt
PROPERTIES PausesKept StopAndEvidenceKept
