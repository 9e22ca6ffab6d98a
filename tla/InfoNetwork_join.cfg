\* A deployment while the two nodes are getting connected: the totals.
CONSTANTS
    n1 = n1
    n2 = n2
    f1 = f1
    Node <- TwoNodes
    Function <- OneFunction
    MaxAvailable = 1
    SubscriberBuffer = 3
    Ordered = TRUE
    Overlap = TRUE
    MaxRequests = 1
    MaxFlips = 0
    MaxCrashes = 0
    MaxGiveUps = 0
    MaxEarly = 0
SPECIFICATION FairSpec
PROPERTIES
    ClusterReplicas
CHECK_DEADLOCK FALSE
