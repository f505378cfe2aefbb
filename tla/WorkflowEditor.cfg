SPECIFICATION Spec
CONSTANTS
    NodeIds <- MCNodeIds
    Indices <- MCIndices
    Names = {"test", "1", "$START", "$END"}
    Statuses = {"done", "again"}
    Files <- MCFiles
    MaxRevisions = 2
    MaxFrames = 2
INVARIANT HistoryIsWhole
PROPERTY SavedIsShown
