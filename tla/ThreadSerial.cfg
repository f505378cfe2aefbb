\* One command at a time, with stop at any time, or one list while it is under way;
\* two roles.
CONSTANTS
    Proc = {p1, p2}
    NoProc = NoProc
    Null = Null
    Roles = {planner, coder}
    END = END
    SUSPEND = SUSPEND
    Stuck = Stuck
    Outcomes = {planner, coder, END, SUSPEND, Stuck}
    StartTarget = planner
    ResumeTarget = coder
    Commands = {"exec", "background", "resume", "poke", "cancel", "stop"}
    MaxRunning = 1
    MaxCount = 2
    MaxSteps = 2
    Serial = TRUE
    Kills = TRUE
    StartTimes = FALSE
    MaxListed = 1
SPECIFICATION ListSpec
INVARIANTS
    ListedTruly
    StatusFitsHead
    ReportIsTrue
SYMMETRY Symmetry
PROPERTIES
    HeadMovesForward
CHECK_DEADLOCK FALSE
