\* Convergence with a crash: two nodes, one function.
CONSTANTS
    n1 = n1
    n2 = n2
    f1 = f1
    Node <- TwoNodes
    Function <- OneFunction
    MaxAvailable = 1
    SubscriberBuffer = 5
    Ordered = TRUE
    Overlap = FALSE
    MaxRequests = 4
    MaxFlips = 1
    MaxCrashes = 1
    MaxGiveUps = 0
    MaxEarly = 0
SPECIFICATION FairSpec
PROPERTIES
    Convergence
    ClusterReplicas
CHECK_DEADLOCK FALSE
