\* Two processes, two agents, one role; a server that restarts once, one kill.
CONSTANTS
    Proc = {p1, p2}
    NoProc = NoProc
    Role = {planner}
    Gateway = {hermes, claude}
    NoRow = NoRow
    Commands = {"exec", "poke"}
    Wordless <- MCWordless
    MaxRetries = 1
    MaxStarts = 2
    MaxSessions = 3
    MaxTurns = 1
    MaxRestarts = 1
    MaxKills = 1
SPECIFICATION Spec
INVARIANTS
    InFlightUnfinished
    DetailCountsTurns
    CorrectionInContext
    StoreKnowsSession
CHECK_DEADLOCK FALSE
SYMMETRY Symmetry
