\* Two nodes and one function with everything that can go wrong.
CONSTANTS
    n1 = n1
    n2 = n2
    f1 = f1
    Node <- TwoNodes
    Function <- OneFunction
    MaxAvailable = 1
    SubscriberBuffer = 1
    Ordered = FALSE
    Overlap = TRUE
    MaxRequests = 3
    MaxFlips = 0
    MaxCrashes = 1
    MaxGiveUps = 1
    MaxEarly = 1
SPECIFICATION Spec
SYMMETRY NodeFunctionSymmetry
INVARIANTS
    TypeOK
    ReplicaAccounting
    CatalogClosed
    SchedulerReady
    RoomOwnerKnown
PROPERTY ImplementsViews
CHECK_DEADLOCK FALSE
