SPECIFICATION Spec
CONSTANTS
    Slots = 2
    MaxOrders = 2
    Manual = {}
    PageSize = 2
    MaxSession = 1
    MaxUser = 0
PROPERTY AlertsPersist
CHECK_DEADLOCK FALSE
