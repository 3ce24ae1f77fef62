SPECIFICATION Spec
CONSTANTS
    Workers = {w1, w2, w3}
    Addresses = {a1, a2}
    Wordings = {v1, v2}
    NoWorker = NoWorker
    NoAddress = NoAddress
    NoLetter = NoLetter
SYMMETRY MailSymmetry
INVARIANTS
    EmailedOnce
    SameBytes
PROPERTIES
    ImplementsPromise
CHECK_DEADLOCK FALSE
