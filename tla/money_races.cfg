SPECIFICATION Spec
CONSTANTS
    Requests = {r1, r2}
    Keys = {k1}
    Workers = {w1, w2}
    Price = 2
    Amounts <- TwoAmounts
    MaxHeld = 1
    Enabled <- LedgerEndpoints
    NoRequest = NoRequest
    NoKey = NoKey
    NoWorker = NoWorker
SYMMETRY RequestsAndWorkers
INVARIANTS
    TypeOK
    LedgerNeverOverdrawn
    IssuedIsAccounted
    OneRowPerKey
PROPERTIES
    RollupTellsTheLedger
    TakenAsDue
    ImplementsMoney
CHECK_DEADLOCK FALSE
