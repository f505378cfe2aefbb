\* Two processes that run any two commands at once, killed at any time.
CONSTANTS
    Proc = {p1, p2}
    NoProc = NoProc
    Null = Null
    Roles = {planner}
    END = END
    SUSPEND = SUSPEND
    Stuck = Stuck
    Outcomes = {END, SUSPEND}
    StartTarget = planner
    ResumeTarget = planner
    Commands = {"background", "resume", "poke", "cancel", "stop", "show"}
    MaxRunning = 2
    MaxCount = 1
    MaxSteps = 1
    Serial = FALSE
    Kills = TRUE
    StartTimes = TRUE
SPECIFICATION Spec
INVARIANTS
    EntryWellFormed
    MarkerTrusted
SYMMETRY Symmetry
CHECK_DEADLOCK FALSE
