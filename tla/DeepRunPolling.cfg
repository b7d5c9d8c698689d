SPECIFICATION Spec
CONSTANTS
    Requests = {q1}
    MaxSections = 1
    Width = 2
    MaxComposes = 1
    Faults = {"cancel", "query"}
    MaxFaults = 2
INVARIANT
    ResumedIsPolled
