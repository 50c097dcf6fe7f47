\* A quarantine is released and the next run finds the same source.
SPECIFICATION RunSpec
CONSTANTS
    pa = pa
    pb = pb
    pc = pc
    quick = quick
    RunPairs = {pa, pb, pc, quick}
    QuickPairs = {quick}
    Destructive = {pb, quick}
    Where <- MCWhere
    Selections <- MCSelections
    MaxParallel = 2
    Full = 1
    DropLimit = 1
    MaxRuns = 2
    MaxShrinks = 1
    MaxDeaths = 0
INVARIANTS ReleaseHolds
CHECK_DEADLOCK FALSE
