\* Two nodes scale the same function down to one replica.
CONSTANTS
    n1 = n1
    n2 = n2
    f1 = f1
    Node <- TwoNodes
    Function <- OneFunction
    MaxAvailable = 1
    SubscriberBuffer = 5
    Ordered = TRUE
    Overlap = FALSE
    MaxRequests = 4
    MaxFlips = 0
    MaxCrashes = 0
    MaxGiveUps = 0
    MaxEarly = 0
SPECIFICATION Spec
PROPERTIES
    ScaleDownLeavesOne
CHECK_DEADLOCK FALSE
