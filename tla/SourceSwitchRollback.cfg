SPECIFICATION Spec
CONSTANTS
    Names = {a, b}
    Versions = {v1}
    Warehouses = {v1}
    Fallback = a
    None = None
    Loop = loop
    Refreshes = {r1}
    Askers = {q1}
    MaxGen = 3
INVARIANT
    ReadyIsAlwaysWhole
