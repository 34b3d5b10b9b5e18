CONSTANTS
    Narrow = {"a"}
    Wide = {"W"}
    Marks = {"m"}
    Attrs = {"plain", "bold"}
    DefaultAttrs = "plain"
    NoChar = "none"
    MinCols = 2
    MaxCols = 3
    MinRows = 1
    MaxRows = 3
    TabWidth = 2
    MaxCombining = 1
    MaxLines = 2
    InitCols = 2
    InitRows = 2
    Sizes <- TwoSizes
    Params = {2}
    MaxResponse = 1
    ScrollThreshold = 0
    Workloads <- Groups
SPECIFICATION Spec
INVARIANT FrameShowsCells
PROPERTY OutputNeverYanks
PROPERTY SelectionAnchored
PROPERTY MainScreenKept
