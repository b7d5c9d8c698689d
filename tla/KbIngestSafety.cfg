SPECIFICATION Spec
CONSTANTS
    Docs = {d1, d2}
    Contents = {a, b}
    Folders = {f1, f2}
    Slots = {s1, s2}
    Recovery = Recovery
    None = None
    MaxUploads = 2
    Events = {"pg", "answer", "disk", "parse", "embed", "cancel", "crash", "move", "delete", "reprocess"}
    MaxEvents = 2
CHECK_DEADLOCK FALSE
INVARIANTS
    TypeOK
    VectorsCurrent
    ShownIsFound
    FileFollowsShaQuietly
    InProgressIsInHandQuietly
PROPERTY OnlineStays
SYMMETRY Symmetry
