SPECIFICATION Spec
CONSTANTS
    c1 = c1
    i1 = i1
    Customers = {c1, c2}
    Orders = {o1, o2}
    Keys = {k1, k2}
    Intents = {i1}
    Payer <- PaidByFirst
    Carts <- TwoCarts
    Workers = {w1, w2}
    Allowance = 1
    CodeLimit = 1
    MaxBalance = 1
    Outcomes <- Cancelled
    NoCustomer = NoCustomer
    NoOrder = NoOrder
    NoKey = NoKey
    NoIntent = NoIntent
SYMMETRY StorefrontSymmetry
INVARIANTS
    TypeOK
    AnswerIsYours
    CustomerLimits
PROPERTIES
    ImplementsSales
