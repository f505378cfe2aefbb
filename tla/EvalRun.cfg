\* Two commands of up to two evaluations each, two records in all.
CONSTANTS
    p1 = p1
    p2 = p2
    Proc = {p1, p2}
    Manifests <- MCManifests
    Scores = {40}
    MaxRuns = 2
    MaxThreads = 2
    MaxKills = 1
SYMMETRY Processes
SPECIFICATION EvalSpec
INVARIANTS
    ListIsCurrent
    RecordsAreWhole
CHECK_DEADLOCK FALSE
