SPECIFICATION Spec
CONSTANTS
    c1 = c1
    i1 = i1
    Customers = {c1}
    Orders = {o1}
    Keys = {k1}
    Intents = {i1}
    Payer <- PaidByFirst
    Carts <- PayAtStore
    Workers = {w1, w2}
    Allowance = 1
    CodeLimit = 1
    MaxBalance = 0
    Outcomes <- Cancelled
    NoCustomer = NoCustomer
    NoOrder = NoOrder
    NoKey = NoKey
    NoIntent = NoIntent
SYMMETRY StorefrontSymmetry
INVARIANTS
    DeletionLeavesNothingOpen
