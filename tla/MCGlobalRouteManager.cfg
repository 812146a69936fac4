SPECIFICATION Spec
CONSTANTS
    NRouters = 4
    NNetworks = 1
    Metrics = {1, 4}
    NetMetric <- MCNetMetric
    Stations <- MCStations
INVARIANTS
    QueueAgrees
    TreeExact
    AssertionExplained
    HopByHop
    NothingStale
PROPERTIES
    Terminates
CHECK_DEADLOCK FALSE
