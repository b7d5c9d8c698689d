SPECIFICATION FairSpec
CONSTANTS
    Docs = {d1}
    Contents = {a}
    Folders = {f1, f2}
    Slots = {s1, s2}
    Recovery = Recovery
    None = None
    MaxUploads = 1
    Events = {"pg", "answer", "disk", "parse", "embed", "cancel", "crash", "move", "reprocess"}
    MaxEvents = 3
CHECK_DEADLOCK FALSE
PROPERTIES Graduates Settles
