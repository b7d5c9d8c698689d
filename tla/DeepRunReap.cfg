SPECIFICATION Spec
CONSTANTS
    Requests = {q1, q2}
    MaxSections = 1
    Width = 2
    MaxComposes = 1
    Faults = {"cancel"}
    MaxFaults = 1
INVARIANT
    InterruptedMeansDead
