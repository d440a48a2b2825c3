SPECIFICATION FairSpec
CONSTANTS
    MaxUpdates = 3
    MaxRequests = 2
    MaxTicks = 2
    MaxErrors = 1
INVARIANTS DbOutlivesWork SkippedStaysQueued
PROPERTIES ShutdownEnds
CHECK_DEADLOCK FALSE
