SPECIFICATION Spec
CONSTANTS
    Keys = {"disk", "fan"}
    Contents <- MCContents
    BadContents <- MCBadContents
    ClientNames = {"log", "one", "two"}
    Clusters = {"cl"}
    NoCluster = NoCluster
    Connections = {r1, r2, r3}
    FirstDisk <- TwoBundles
    FirstFiles <- OneRegistered
    Operations <- AllOperations
    MaxCrashes = 1
SYMMETRY Interchangeable
INVARIANTS
    TypeOK
    NoEventFromTwoFiles
    StormsAreKept
    NothingHalfIngested
    ShortfallIsShown
CHECK_DEADLOCK FALSE
