\* Three catalog calls; three secret requests, two at a time, and two crashes;
\* three namespace requests; two nodes and an update; two addresses.
CONSTANTS
    Node = {self, peer}
    Self = self
    Goroutine = {a1, a2, a3}
    CatalogOperation = {"add", "update", "delete", "message"}
    Namespace = {fn, other}
    Default = fn
    short = short
    long = long
    Value <- TwoSecrets
    Length <- Lengths
    Writer = {w1, w2}
    MaxRequests = 3
    MaxCrashes = 2
    Extra = {"a"}
    SpaceRequest = {a1, a2, a3}
    SpaceOperation = {"create", "update", "delete", "deploy", "remove"}
    CopyNode = {c1, c2}
    CopyRequest <- Odd
    Image <- MCImage
    MaxUpdates = 1
    Container <- SimilarNames
    Pid <- Growing
    Addresses = 2
SPECIFICATION Spec
SYMMETRY Symmetry
INVARIANTS
    TypeOK
    RecountRepairs
    PanicNeedsDelete
    StoredAsAsked
    LabelsKept
    CopiesAlike
    
\* The calls, requests and PIDs of an instance run out.
CHECK_DEADLOCK FALSE
