\* Two names, three directories up to the root, two workflowPaths directories;
\* a limit of 2 unless the file says 1; three commands that change the file.
CONSTANTS
    WorkflowNames = {"a", "b"}
    Depth = 3
    PathDirs = 2
    Cases <- MCCases
    WorkflowName = "a"
    ListedDirs <- MCListedDirs
    Limits <- MCLimits
    Bundled = {"a", "b"}
    Settings <- MCSettings
    Setups <- MCSetups
    Overrides = {"", "hermes", "inline"}
SPECIFICATION Spec
INVARIANTS
    AcceptedRuns
    RolesAreReached
    ShownIsStarted
PROPERTY SettingsHold
CHECK_DEADLOCK FALSE
