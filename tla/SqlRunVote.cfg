SPECIFICATION FairSpec
CONSTANTS
    Runs = {r1}
    Samples = 3
    MaxAttempts = 3
    CaliberRounds = 2
    MaxSteers = 1
    Values = {v1, v2}
INVARIANTS MajorityAgrees
PROPERTY EveryRunEnds
