\* Two nodes whose views of each other go stale, two invocations.
CONSTANTS
    n1 = n1
    n2 = n2
    r1 = r1
    r2 = r2
    Node <- TwoNodes
    Request <- TwoRequests
    SortedP2PID <- NearFirst
    Elapsed = {0, 3}
    MaxRemovals = 1
    MaxFlips = 1
SPECIFICATION Spec
INVARIANTS
    TypeOK
    ForwardedOnce
PROPERTIES
    TimeStaysForTarget
    RequestsAnswered
CHECK_DEADLOCK FALSE
