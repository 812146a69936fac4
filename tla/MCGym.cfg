CONSTANTS MaxEpisodes = 3 MaxStates = 3
SPECIFICATION FairSpec
INVARIANTS ObservationFresh ClosedMeansStopped
PROPERTIES TakesTurns CallsReturn NoOrphans
CHECK_DEADLOCK FALSE
