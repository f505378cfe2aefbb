\* Termination: two processes, an exec of up to two steps, join and stop, killed at any time.
CONSTANTS
    Proc = {p1, p2}
    NoProc = NoProc
    Null = Null
    Roles = {planner}
    END = END
    SUSPEND = SUSPEND
    Stuck = Stuck
    Outcomes = {planner, END, Stuck}
    StartTarget = planner
    ResumeTarget = planner
    Commands = {"background", "join", "stop"}
    MaxRunning = 1
    MaxCount = 2
    MaxSteps = 1
    Serial = FALSE
    Kills = TRUE
    StartTimes = TRUE
SPECIFICATION FairSpec
PROPERTIES
    CommandsFinish
    JoinReturns
CHECK_DEADLOCK FALSE
