\* Two batches of two definitions, another holder of the scope: safety, and
\* the end of every batch while no operation fails.
SPECIFICATION FairSpec
CONSTANTS
    NumBatches = 2
    Last = 2
    MaxCrashes = 1
    MaxFaults = 1
    Contended = TRUE
CONSTRAINT OneTrouble
INVARIANTS TypeOK CancelStops ItemsTellTheTruth DrivesAlone
PROPERTIES BatchLedgerSpec BatchesEnd
CHECK_DEADLOCK FALSE
