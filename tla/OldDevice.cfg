\* A device registers while the sessions are being ended.
SPECIFICATION GrantSpec
CONSTANTS
    Flows = {f1, f2}
    MaxCounter = 1
    MaxChanges = 1
    MaxCeremonies = 1
    MaxKeyGens = 1
INVARIANTS NoOldDevice
CHECK_DEADLOCK FALSE
