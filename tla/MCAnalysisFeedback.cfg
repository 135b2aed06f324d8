SPECIFICATION Spec
CONSTANTS
    Patterns <- MCPatterns
    Nodes <- MCNodes
    NoNode = NoNode
    EmptyNode = EmptyNode
    Connections = {r1, r2, r3}
    Clusters = {"cl"}
    Times = {0, 1, 2}
    Window = 1
    PriorFiles <- OneFile
    FirstFindings <- OpenDisk
    Operations <- FileOperations
    Replies <- NothingFound
    MaxCrashes = 0
SYMMETRY Interchangeable
PROPERTIES
    RefusedWithoutNewFeedback
CHECK_DEADLOCK FALSE
