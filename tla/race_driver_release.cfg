SPECIFICATION Spec
CONSTANTS
    Orders = {o1, o2}
    Drivers = {d1}
    Requests = {}
    Workers = {w1, w2}
    LegacyOrders = {}
    Enabled <- RacingCompletions
    NoDriver = NoDriver
    NoRequest = NoRequest
    NoWorker = NoWorker
PROPERTIES
    AvailabilityFollowsAssignments
CHECK_DEADLOCK FALSE
