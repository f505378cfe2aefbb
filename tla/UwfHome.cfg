\* Two threads and a workflow; two roles and three steps in all; budgets cut down
\* to 3 turns (30 in the code), 2 for a correction (5), 1 nudge (3), a warning
\* with 2 turns to go (3), 1 correction (2).
CONSTANTS
    Absent = Absent
    Ids = {"t", "u", "w"}
    TheThread = "t"
    Legacies <- MCLegacies
    Roles = {"r1", "r2"}
    MaxTurns = 3
    ContinueTurns = 2
    MaxNudges = 1
    DeadlineTurns = 2
    MaxRetries = 1
    MaxSteps = 3
SPECIFICATION Spec
INVARIANTS
    CarriedOverOnce
    LineageWhole
    BudgetKept
    OwnWords
    ToldOnce
CHECK_DEADLOCK FALSE
