SPECIFICATION Spec
CONSTANTS
    YearLength = 9
    LeapUnit = 3
    _FUTURE_SLACK = 1
    _ROLLOVER_TOLERANCE = 2
    NoTime = NoTime
    NoSeverity = NoSeverity
    NoCluster = NoCluster
    NoNode = NoNode
    Clusters = {"A", "B"}
    Arrivals <- MCArrivals
    SAMPLE_SIZE = 4
    ScanWindow = 2
    RefLists <- MCRefLists
    MAX_LEADS = 2
    MAX_RESULTS = 2
    DEFAULT_RESULTS = 1
    MAX_WINDOW = 2
    DEFAULT_WINDOW = 1
    Filters <- MCFilters
    Limits <- MCLimits
    Windows <- MCWindows
    MaxScans = 1
INVARIANTS
    TypeOK
    DatesAreTrue
    DatesFollowTheFile
    FloorIsExact
    GroupsAreRuns
    LeadsStayTrue
    EvidenceIsWhole
CHECK_DEADLOCK FALSE
