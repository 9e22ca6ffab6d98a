\* What is found when no node has the function and all are overloaded?
CONSTANTS
    n1 = n1
    n2 = n2
    r1 = r1
    r2 = r2
    Node <- TwoNodes
    Request <- OneRequest
    SortedP2PID <- NearFirst
    Elapsed = {3}
    MaxRemovals = 1
    MaxFlips = 2
SPECIFICATION Spec
PROPERTY FoundNodeRuns
CHECK_DEADLOCK FALSE
