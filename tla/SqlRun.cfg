SPECIFICATION Spec
CONSTANTS
    Runs = {r1, r2}
    Samples = 1
    MaxAttempts = 3
    CaliberRounds = 2
    MaxSteers = 2
    Values = {v1}
INVARIANTS NeverOutOfAttempts OnlyCheckedSqlRuns UnnotedIsSound LearnedIsSound DepthIsRunning
PROPERTY CorrectionsAreKept
