CONSTANTS
    Elements = {e1, e2}
    Handlers = {h1}
    Unawaited = {u1}
    MaxPresses = 3
    Commands = {c1, c2}
    MaxCmds = 3
    Files = {fa, fb}
    MaxEdits = 2
    MaxEdOps = 4
    Dirs = {da, db}
    MaxDirOps = 2
    MaxDirChanges = 1
    MaxDirFaults = 1
    Filesystems = {exfat, fat32}
    FirstFs = exfat
    MaxSdOps = 4
    MaxSwaps = 2
SPECIFICATION MCSpec
INVARIANTS DialogInv  EditorInv ListingInv 
PROPERTIES ToolSteps ToolsReturn
CHECK_DEADLOCK FALSE
