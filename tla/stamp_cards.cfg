SPECIFICATION Spec
CONSTANTS
    Customers = {c1, c2}
    Orders = {o1, o2}
    Grants = {g1}
    Workers = {w1, w2}
    Cap = 3
    Cost = 2
    HalfPounds <- Weights
    Stamps <- Two
    MaxIssues = 1
    Enabled <- AllEndpoints
    Guest = Guest
    NoOrder = NoOrder
    NoGrant = NoGrant
    NoWorker = NoWorker
SYMMETRY CardSymmetry
INVARIANTS
    TypeOK
    CardWithinCap
    LedgerTellsTheCard
    RewardsFollowOrders
    GrantedOnce
PROPERTIES
    RetriesWorkOnFullCards
    ImplementsProgram
CHECK_DEADLOCK FALSE
