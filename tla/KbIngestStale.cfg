SPECIFICATION Spec
CONSTANTS
    Docs = {d1, d2}
    Contents = {a, b}
    Folders = {f1}
    Slots = {s1, s2}
    Recovery = Recovery
    None = None
    MaxUploads = 3
    Events = {}
    MaxEvents = 0
CHECK_DEADLOCK FALSE
INVARIANT IndexFollowsSha
