SPECIFICATION FairSpec
CONSTANTS
    Orders = {o1}
    l1 = l1
    Locations <- OneKitchen
    Sockets = {s1, s2}
    LocationOf <- OrdersAtIt
    StationOf <- TabletsAtIt
    Automatic <- OneKitchen
    MaxCrashes = 1
    NoLocation = NoLocation
INVARIANTS
    TypeOK
    AcceptedIsReviewed
    NobodyForgotten
    TabletsAreSeen
PROPERTIES
    AcceptedOnce
    PlacedIsAttended
CHECK_DEADLOCK FALSE
