SPECIFICATION Spec
CONSTANTS
    Patterns <- MCPatterns
    Nodes <- MCNodes
    NoNode = NoNode
    EmptyNode = EmptyNode
    Connections = {r1, r2, r3}
    Clusters = {"cl"}
    Times = {0, 1, 2}
    Window = 1
    PriorFiles <- NoneOrTwoFiles
    FirstFindings <- OpenDisk
    Operations <- FileOperations
    Replies <- SomeReplies
    MaxCrashes = 1
SYMMETRY Interchangeable
INVARIANTS
    TypeOK
    AutoSuppressedStaysKnown
    CandidatesComeWithTheirRun
    FreeRunsAreExplained
    FileRefusalsRight
CHECK_DEADLOCK FALSE
