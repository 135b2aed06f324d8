SPECIFICATION FairSpec
CONSTANTS
    Patterns <- MCPatterns
    Nodes <- MCNodes
    NoNode = NoNode
    EmptyNode = EmptyNode
    Candidate = "c1"
    CandidatePattern = "disk"
    CandidateNode = "n1"
    ValidPatterns <- MCValidPatterns
    IterationCaps = {3, 4}
    RecursionLimit = 9
    CostCap = 3
    TurnCosts = {0, 1, 2}
    Turns <- MCTurns
    PriorFindings <- MCPriorFindings
    PriorFeedback <- MCPriorFeedback
INVARIANTS
    TypeOK
    OverspendIsOneCall
    BilledIsRecorded
    RecursionLimitUnreached
    ReadyNeverLost
    WorkingNeverLost
    ResultMatchesConclusion
    OpenFindingsAreNew
PROPERTIES
    StaysInBudget
    Termination
CHECK_DEADLOCK FALSE
