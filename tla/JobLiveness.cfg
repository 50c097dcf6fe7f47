\* Every reserved run is closed, every staged outcome applied; retries run out.
SPECIFICATION FairSpec
CONSTANTS
    Web = web
    Ticker = tick
    Workers = {web, tick}
    Nobody = nobody
    Jobs = {j1}
    NoJob = nojob
    Pairs = {p1}
    Attempts = 2
    MaxCrashes = 1
    MaxFaults = 2
    ReplayFaults = FALSE
INVARIANTS RunFileTruthful
PROPERTIES RunsEnd
