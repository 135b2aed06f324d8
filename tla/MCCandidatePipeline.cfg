SPECIFICATION FairSpec
CONSTANTS
    Patterns <- MCPatterns
    Nodes <- MCNodes
    NoNode = NoNode
    EmptyNode = EmptyNode
    Connections = {"r1", "r2", "r3"}
    Candidates = {"c1", "c2", "c3"}
    Workloads <- MCWorkloads
    FirstFindings <- OneFinding
    MaxToolCalls <- MCToolCalls
    MaxResults <- MCResults
    MaxCrashes = 1
INVARIANTS
    TypeOK
    UniqueOpen
    OneTaskPerCandidate
    NothingHalfCommitted
    AcceptedIsDurable
PROPERTIES
    DecidesOneAtATime
    EveryoneFinishes
CHECK_DEADLOCK FALSE
