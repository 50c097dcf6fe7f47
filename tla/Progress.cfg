\* A run of overlapping paths; a job every two minutes with a clock set back,
\* a kill, a manual run; two uploads of one content, a crash, a removal, a
\* changed data path.
SPECIFICATION FairSpec
CONSTANTS
    pa = pa
    pb = pb
    pc = pc
    quick = quick
    RunPairs = {pa, pb, pc, quick}
    QuickPairs = {quick}
    Destructive = {pb, quick}
    Where <- MCWhere
    Selections <- MCSelections
    MaxParallel = 2
    Full = 1
    DropLimit = 1
    MaxRuns = 1
    MaxShrinks = 1
    MaxDeaths = 1
    Items = {"job"}
    Occurs <- MCOccurs
    SlotOf <- MCSlotOf
    Retry = 1
    Grace = 1
    FirstTick = FALSE
    MaxAge = 2
    Repeat = 2
    MaxClock = 4
    MaxKills = 1
    MaxManual = 1
    MaxPauses = 1
    Uploads = {u1,u2}
    Rescued = {}
    Cloud = {u1}
    ContentOf <- MCContent
    Size = 1
    Damage = 1
    MaxRoadEdits = 1
    MaxRemovals = 1
    MaxVaultCrashes = 1
    MaxDownloads = 1
INVARIANTS AlarmRhythm ReadyIsRestorable
PROPERTIES StartedOnce SlotAnswered SharedDataKept RunEnds CompletionEnds
CHECK_DEADLOCK FALSE
