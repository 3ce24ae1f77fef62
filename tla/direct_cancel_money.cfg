SPECIFICATION Spec
CONSTANTS
    Orders = {o1}
    Drivers = {d1}
    Requests = {}
    Workers = {w1}
    LegacyOrders = {}
    Enabled <- DirectCancel
    NoDriver = NoDriver
    NoRequest = NoRequest
    NoWorker = NoWorker
INVARIANTS
    CancelledMoneyIsClaimed
CHECK_DEADLOCK FALSE
