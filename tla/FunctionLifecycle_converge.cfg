\* Requests of every kind against the monitor loop.
CONSTANTS
    MaxRequests = 3
    MaxStops = 1
SPECIFICATION Spec
INVARIANT TypeOK
PROPERTIES
    ScaledDownRemoved
    CacheRefreshed
    StoppedCleared
    HandlersReturn
