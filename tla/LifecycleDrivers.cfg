SPECIFICATION Spec
CONSTANTS
    Orders = {o1}
    Drivers = {d1, d2}
    Users = {u1}
    Customers = {c1}
    Reviewer = reviewer
    Requests = {r1, r2}
    NoOrder = NoOrder
    NoDriver = NoDriver
    NoUser = NoUser
    NoCustomer = NoCustomer
    MaxTime = 2
SYMMETRY Symmetric
CONSTRAINT Bounded
INVARIANTS
    TypeOK
    ReceiptBeforePickup
    TimestampsMatchStatus
    LoyaltyAtMostOnce
    TimestampsInOrder
PROPERTIES
    FinalRowsFrozen
    ImplementsStatusMatrix
