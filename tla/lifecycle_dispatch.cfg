SPECIFICATION Spec
CONSTANTS
    Orders = {o1, o2}
    Drivers = {d1}
    Requests = {}
    Workers = {w1, w2}
    LegacyOrders = {o2}
    Enabled <- DispatchEndpoints
    NoDriver = NoDriver
    NoRequest = NoRequest
    NoWorker = NoWorker
SYMMETRY WorkerSymmetry
INVARIANTS
    PinBeforeDelivered
    CompletionsCounted
PROPERTIES
    ImplementsClosure
CHECK_DEADLOCK FALSE
