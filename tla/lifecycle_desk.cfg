SPECIFICATION Spec
CONSTANTS
    Orders = {o1}
    Drivers = {d1}
    Requests = {r1, r2}
    Workers = {w1, w2}
    LegacyOrders = {}
    Enabled <- DeskEndpoints
    NoDriver = NoDriver
    NoRequest = NoRequest
    NoWorker = NoWorker
SYMMETRY WorkerSymmetry
INVARIANTS
    TypeOK
    TrailTellsTheStatus
    ApprovalClosesItsOrder
    NoShowsCounted
    RefundOnlyForCancelled
    SelfCancelStrandsNobody
    OnlyApprovalsDeadlock
PROPERTIES
    TerminalIsFinal
CHECK_DEADLOCK FALSE
