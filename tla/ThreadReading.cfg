\* One runner and one follower or pager, one role, three steps; pages of one
\* step, of two, and of at most two turns, and one turn of a step, or two.
CONSTANTS
    Proc = {p1}
    NoProc = NoProc
    Role = {planner}
    Gateway = {hermes}
    NoRow = NoRow
    Commands = {"exec", "poke"}
    Wordless <- MCWordless
    MaxRetries = 1
    MaxStarts = 3
    MaxSessions = 3
    MaxTurns = 1
    MaxRestarts = 0
    MaxKills = 0
    Quotas = {0, 9}
    StartLength = 2
    BlockLength = 3
    SeparatorLength = 1
    HeaderLength = 2
    TurnLength = 3
    TurnSeparator = 1
    PageTurns = 2
SPECIFICATION ReadSpec
INVARIANTS
    PanoramaFollowsChain
    RunningGroupIsWhole
    PagesTile
PROPERTIES
    FollowerPrintsStep
    FollowerReturns
CHECK_DEADLOCK FALSE
