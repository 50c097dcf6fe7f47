\* The replay of a staged outcome fails once under the scope lock.
SPECIFICATION Spec
CONSTANTS
    Web = web
    Ticker = tick
    Workers = {web, tick}
    Nobody = nobody
    Jobs = {j1}
    NoJob = nojob
    Pairs = {p1}
    Attempts = 2
    MaxCrashes = 1
    MaxFaults = 2
    ReplayFaults = TRUE
INVARIANT FinishedWorkKept
