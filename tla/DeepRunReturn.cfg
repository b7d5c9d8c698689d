SPECIFICATION Spec
CONSTANTS
    Requests = {q1}
    MaxSections = 1
    Width = 2
    MaxComposes = 1
    Faults = {"cancel", "scope"}
    MaxFaults = 2
INVARIANT
    ReturnedMeansClosed
