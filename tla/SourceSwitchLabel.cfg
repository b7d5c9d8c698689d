SPECIFICATION Spec
CONSTANTS
    Names = {a, b, p}
    Versions = {v1, v2}
    Warehouses = {v1, v2}
    Fallback = a
    None = None
    Loop = loop
    Refreshes = {r1}
    Askers = {q1}
    MaxGen = 3
PROPERTY
    RowsAreOfTheirSource
