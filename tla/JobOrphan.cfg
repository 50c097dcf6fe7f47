\* The worker is killed between the start of a child and its marker.
SPECIFICATION Spec
CONSTANTS
    Web = web
    Ticker = tick
    Workers = {web, tick}
    Nobody = nobody
    Jobs = {j1, j2}
    NoJob = nojob
    Pairs = {p1}
    Attempts = 2
    MaxCrashes = 1
    MaxFaults = 0
    ReplayFaults = FALSE
INVARIANT NoDoubleStart
