SPECIFICATION Spec
CONSTANTS
    Names = {a, b}
    Versions = {v1, m}
    Warehouses = {v1}
    Fallback = a
    None = None
    Loop = loop
    Refreshes = {r1}
    Askers = {q1}
    MaxGen = 2
INVARIANTS
    TypeOK
    ReadyIsWhole
    SuccessSurvivesRestart
PROPERTY
    GraphAnswersWhole
