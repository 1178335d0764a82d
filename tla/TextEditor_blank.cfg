INIT EdInit
NEXT EdNext
CONSTANTS
    Files = {fa, fb}
    MaxEdits = 1
    MaxEdOps = 3
INVARIANT NeverBlanked
CHECK_DEADLOCK FALSE
