\* Three processes, two slots.
CONSTANTS
    Proc = {p1, p2, p3}
    NoProc = NoProc
    MaxRunning = 2
    Limits = {2}
    PidReuse = FALSE
SPECIFICATION FairSpec
INVARIANTS
    HoldersWithinLimit
    HolderHasSlot
PROPERTIES
    PoolSpec
    LoneWaiterServed
CHECK_DEADLOCK FALSE
