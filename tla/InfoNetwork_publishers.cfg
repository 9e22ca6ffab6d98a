\* Nobody stays blocked in publishInfo: joins, crashes and changes overlap.
CONSTANTS
    n1 = n1
    n2 = n2
    f1 = f1
    Node <- TwoNodes
    Function <- OneFunction
    MaxAvailable = 1
    SubscriberBuffer = 1
    Ordered = FALSE
    Overlap = TRUE
    MaxRequests = 1
    MaxFlips = 1
    MaxCrashes = 1
    MaxGiveUps = 0
    MaxEarly = 0
SPECIFICATION FairSpec
PROPERTIES
    PublishersReturn
CHECK_DEADLOCK FALSE
