CONSTANTS
    c1 = c1
    c2 = c2
    s1 = s1
    Cases = {c1, c2}
    Subjects = {s1}
    SubjectOf <- OneCustomer
    Systems = 1
    MaxHead = 8
    MaxEra = 2
    MaxOrders = 2
    MaxPuts = 2
    Challenges = {k1, k2}
    Devices = {c1, c2}
    Checks = {v1, v2}
    Requests = {s1}
    MaxAttempts = 1
    None = None
    t1 = t1
    t2 = t2
    Tabs = {t1, t2}
    Tokens = {1, 2, 3}
    Storages = {"ok", "full", "off"}
    Kept = 2
    LIFETIME = 2
    MaxTime = 2
    Final = 1
    MaxAnswers = 2
    Addresses = {"near", "elsewhere"}
    Deliverable = {"near"}
    MaxLoads = 2
    MaxTokens = 2
    MaxPosts = 2
SPECIFICATION CustomersSpec
CONSTRAINT Bounded
SYMMETRY Symmetric
CHECK_DEADLOCK FALSE
INVARIANTS ServedAsDecided ErasureHolds IdentitySound
PROPERTIES ImplementsLedger FormKept TrackingHolds
