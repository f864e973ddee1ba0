SPECIFICATION Spec
CONSTANTS
    Orders = {o1, o2}
    Drivers = {rob, d1}
    Rob = rob
    Limit = 1
    RobPriority = TRUE
    Txns = {t1, t2}
    NoDriver = NoDriver
    NoOrder = NoOrder
    NoTxn = NoTxn
SYMMETRY Symmetric
INVARIANTS
    NoDeadlock
    UnfinishedKeepsAccess
PROPERTIES
    RobLimit
    AssignedWhileOnline
