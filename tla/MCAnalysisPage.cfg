SPECIFICATION FairSpec
CONSTANTS
    Scopes = {1, 2}
    NoScope = NoScope
    DefaultScope = 2
    PastRuns = {"first", "second"}
    NoRun = NoRun
    NoAnswer = NoAnswer
    Candidates <- MCCandidates
    RunOf <- MCRunOf
    Visits <- MCVisits
    MaxClicks = 3
    MaxRequests = 3
    MaxFailures = 1
INVARIANTS
    NoIntervalLeaks
PROPERTIES
    ButtonComesBack
    CardsCatchUp
CHECK_DEADLOCK FALSE
