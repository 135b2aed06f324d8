SPECIFICATION FairSpec
CONSTANTS
    Pages <- MCPages
    FirstPage = "first"
    NoPage = NoPage
    NoCount = NoCount
    NoPercentage = NoPercentage
    Collections <- MCCollections
    Reads <- MCReads
    RETRIES_TOTAL = 2
    RETRIES_STATUS = 1
    MAX_LISTED_ITEMS = 2
CONSTRAINT
    FewEmptyPages
INVARIANTS
    CountsAreHonest
PROPERTIES
    ImplementsFeed
    ReadsEnd
CHECK_DEADLOCK FALSE
