SPECIFICATION Spec
CONSTANTS
    Patterns <- MCPatterns
    Nodes <- MCNodes
    NoNode = NoNode
    EmptyNode = EmptyNode
    Connections = {r1, r2}
    Clusters = {"cl"}
    Times = {0, 1, 2}
    Window = 1
    PriorFiles <- OneFile
    FirstFindings <- OpenDisk
    Operations <- FileOperations
    Replies <- SomeReplies
    MaxCrashes = 0
SYMMETRY Interchangeable
INVARIANTS
    BilledRunShowsItsCost
CHECK_DEADLOCK FALSE
