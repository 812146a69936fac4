CONSTANTS
  Delays = {0, 1}
  MaxUid = 7
SPECIFICATION FairSpec
INVARIANTS ExpiredIsRight SimInv
PROPERTIES EventsInOrder TurnComesCloser EventsRun
CHECK_DEADLOCK FALSE
