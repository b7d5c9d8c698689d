SPECIFICATION FairSpec
CONSTANTS
    Pieces = 5
    FlushAt = 3
    Capacity = 2
INVARIANT DoneIsSettled
PROPERTIES KeepsPromise AllIsShown LeavingStopsTheWorker
CHECK_DEADLOCK FALSE
