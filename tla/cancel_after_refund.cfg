SPECIFICATION Spec
CONSTANTS
    Requests = {r1, r2}
    Keys = {k1}
    Workers = {w1}
    Price = 2
    Amounts <- TwoAmounts
    MaxHeld = 0
    Enabled <- CancelAfterRefund
    NoRequest = NoRequest
    NoKey = NoKey
    NoWorker = NoWorker
SYMMETRY RequestsAndWorkers
INVARIANTS
    CancelledBalanceClaimed
CHECK_DEADLOCK FALSE
