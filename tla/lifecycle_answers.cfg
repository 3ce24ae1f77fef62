SPECIFICATION FairSpec
CONSTANTS
    Orders = {o1}
    Drivers = {d1}
    Requests = {r1, r2}
    Workers = {w1, w2}
    LegacyOrders = {}
    Enabled <- AnswerEndpoints
    NoDriver = NoDriver
    NoRequest = NoRequest
    NoWorker = NoWorker
PROPERTIES
    RequestsAnswered
    CancelledMoneyEventuallyClaimed
CHECK_DEADLOCK FALSE
