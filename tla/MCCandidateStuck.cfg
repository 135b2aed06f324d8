SPECIFICATION Spec
CONSTANTS
    Patterns <- MCPatterns
    Nodes <- MCNodes
    NoNode = NoNode
    EmptyNode = EmptyNode
    Connections = {"r1", "r2"}
    Candidates = {"c1", "c2"}
    Workloads <- TwoInvestigations
    FirstFindings <- NoFindings
    MaxToolCalls <- TwoEach
    MaxResults <- OneEach
    MaxCrashes = 0
INVARIANTS
    OutcomeAlwaysRecorded
CHECK_DEADLOCK FALSE
