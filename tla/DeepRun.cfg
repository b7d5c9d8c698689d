SPECIFICATION FairSpec
CONSTANTS
    Requests = {q1, q2}
    MaxSections = 2
    Width = 2
    MaxComposes = 2
    Faults = {"pg", "cancel", "crash", "query", "route", "scope", "artifact", "empty"}
    MaxFaults = 2
INVARIANTS
    TypeOK
    SingleExecutor
    LedgerAgrees
PROPERTIES
    OneWorker
    GateReopens
    EventuallyDone
