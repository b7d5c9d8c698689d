SPECIFICATION Spec
CONSTANTS
    Requests = {q1, q2}
    MaxSections = 3
    Width = 2
    MaxComposes = 2
    Faults = {"pg", "cancel", "crash", "query", "route", "scope", "artifact", "empty"}
    MaxFaults = 2
SYMMETRY Symmetry
INVARIANTS
    TypeOK
    SingleExecutor
    LedgerAgrees
PROPERTY
    OneWorker
