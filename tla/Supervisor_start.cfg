\* Every dependency graph over three services and an unknown name, two failures or crashes.
CONSTANTS
    s1 = s1
    s2 = s2
    s3 = s3
    Service <- ThreeServices
    Services <- List
    other = other
    Unknown <- NotListed
    MaxFailures = 2
SPECIFICATION Spec
INVARIANTS
    TypeOK
    DependenciesFirst
    PanicJustified
    OrderComplete
    NameFree
PROPERTY ComesUp
CHECK_DEADLOCK FALSE
