SPECIFICATION Spec
CONSTANTS
    Goals = {g1, g2}
    Sole = g1
INVARIANTS LastMemberAnswers
CHECK_DEADLOCK FALSE
