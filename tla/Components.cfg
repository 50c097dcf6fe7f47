\* Every component in a small instance: types, and the safety of runs, of the
\* configuration, of the grants of the account and of the recovery jobs.
SPECIFICATION Spec
CONSTANTS
    Parts = {"run", "due", "store", "grant", "recovery", "vault"}
    pa = pa
    pb = pb
    pc = pc
    quick = quick
    web = web
    cli = cli
    clerk = clerk
    RunPairs = {pa, pb, pc, quick}
    QuickPairs = {quick}
    Destructive = {pb, quick}
    Where <- MCWhere
    Selections <- MCSelections
    MaxParallel = 2
    Full = 1
    DropLimit = 1
    MaxRuns = 2
    MaxShrinks = 1
    MaxDeaths = 1
    Items = {"job", "pbs", "drill"}
    Occurs <- MCOccurs
    SlotOf <- MCSlotOf
    Retry = 1
    Grace = 1
    FirstTick = FALSE
    MaxAge = 2
    Repeat = 2
    MaxClock = 2
    MaxKills = 0
    MaxManual = 1
    MaxPauses = 1
    Clients = {c1, clerk}
    Processes = {web, cli}
    ProcessOf <- MCProcessOf
    Outsider = other
    MaxWrites = 2
    MaxEdits = 2
    Flows = {f1, f2}
    MaxCounter = 1
    MaxChanges = 1
    MaxCeremonies = 2
    MaxKeyGens = 2
    StoredFiles = {fa, fb}
    StagingLimit = 2
    MaxRecoveries = 2
    MaxWritesOut = 1
    MaxCrashes = 1
    MaxStoreFaults = 1
    Uploads = {u1, u2}
    Rescued = {u2}
    Cloud = {u1}
    ContentOf <- MCContent
    Size = 2
    Damage = 1
    MaxRoadEdits = 1
    MaxRemovals = 1
    MaxVaultCrashes = 1
    MaxDownloads = 1
SYMMETRY Interchangeable
CONSTRAINT Small
INVARIANTS TypesOK AcknowledgedKept OverlapSerialised FirstResyncOnce NoOldPassword UsedOnce PointIsOneMoment ReadyIsWhole DiskWithinBudget
PROPERTIES QuarantineHolds OneRegister VersionGrows YieldsAreLive ChildKeepsItsPlace
CHECK_DEADLOCK FALSE
