\* Safety of the run lifecycle: one crash, one failing operation, cancel requests.
SPECIFICATION Spec
CONSTANTS
    Web = web
    Ticker = tick
    Workers = {web, tick}
    Nobody = nobody
    Jobs = {j1, j2}
    NoJob = nojob
    Pairs = {p1}
    Attempts = 2
    MaxCrashes = 1
    MaxFaults = 1
    ReplayFaults = FALSE
SYMMETRY Interchangeable
CONSTRAINT OneTrouble
INVARIANTS IndInv ScopeExclusive FinishedWorkKept CancelHonoured
PROPERTIES WorkersKeepTheirJob LivingKidsStayVisible LedgerSpec
