\* Is a reported function kept running?
CONSTANTS
    MaxRequests = 1
    MaxStops = 1
SPECIFICATION Spec
PROPERTY AvailableRuns
