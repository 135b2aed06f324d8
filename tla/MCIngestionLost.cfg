SPECIFICATION Spec
CONSTANTS
    Keys = {"disk", "fan"}
    Contents <- MCContents
    BadContents <- MCBadContents
    ClientNames = {"log", "one", "two"}
    Clusters = {"cl"}
    NoCluster = NoCluster
    Connections = {r1, r2}
    FirstDisk <- Empty
    FirstFiles <- Empty
    Operations <- ScanOperations
    MaxCrashes = 0
INVARIANT RefusedUploadIsKept
CHECK_DEADLOCK FALSE
