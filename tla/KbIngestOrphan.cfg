SPECIFICATION Spec
CONSTANTS
    Docs = {d1, d2}
    Contents = {a, b}
    Folders = {f1}
    Slots = {s1, s2}
    Recovery = Recovery
    None = None
    MaxUploads = 2
    Events = {"cancel"}
    MaxEvents = 1
CHECK_DEADLOCK FALSE
INVARIANT InProgressIsInHand
