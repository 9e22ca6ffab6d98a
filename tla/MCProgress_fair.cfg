\* Two concurrent scale requests and a failure; two joining nodes and a lost
\* ping; three starts of faasd up and a fault; four log entries.
CONSTANTS
    n1 = n1
    n2 = n2
    Node <- TwoNodes
    Sorted <- MCSorted
    Request = {1, 2}
    MaxAsked = 2
    MaxReplicas = 2
    Width = 2
    MaxFailures = 1
    Self = self
    None = none
    p1 = p1
    p2 = p2
    Peer <- TwoPeers
    Rtt <- MCRtt
    Capacity = 3
    MaxOverlap = 2
    MaxLost = 1
    Order <- MCOrder
    Prometheus = "prometheus"
    MaxStarts = 3
    MaxFaults = 1
    JournalEntries = 4
    PipeSize = 2
    BadEntries = TRUE
SPECIFICATION Spec
INVARIANTS
    TypeOK
    ScaledFirstHand
    ScaledUp
    UpToDesired
    RankedByRTT
    CurrentAddress
PROPERTIES
    ScaleAnswered
    NamesSettle
    LogsEnd
\* The requests, starts and entries of an instance run out.
CHECK_DEADLOCK FALSE
