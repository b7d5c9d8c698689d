SPECIFICATION Spec
CONSTANTS
    Runs = {r1}
    Samples = 1
    MaxAttempts = 3
    CaliberRounds = 2
    MaxSteers = 1
    Values = {v1}
INVARIANT LearnedAgreesWithAnswer
