\* A cancel arrives between the reservation of the first job and the thread's
\* first look at its item.
SPECIFICATION Spec
CONSTANTS
    NumBatches = 1
    Last = 2
    MaxCrashes = 0
    MaxFaults = 0
    Contended = FALSE
INVARIANT RunningHasItsLock
CHECK_DEADLOCK FALSE
