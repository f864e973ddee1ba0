SPECIFICATION Spec
CONSTANTS
    Orders = {o1}
    Drivers = {d1}
    Users = {u1}
    Customers = {c1, c2}
    Reviewer = reviewer
    Requests = {r1, r2}
    NoOrder = NoOrder
    NoDriver = NoDriver
    NoUser = NoUser
    NoCustomer = NoCustomer
    MaxTime = 2
PROPERTIES
    FinalOrdersNotEdited
