SPECIFICATION MCFairSpec
CONSTANTS
    i1 = i1
    i2 = i2
    r1 = r1
    p1 = p1
    p2 = p2
    w = w
    Installs <- MCInstalls
    Removals <- MCRemovals
    Packages <- MCPackages
    PackageOf <- MCPackageOf
    Processes <- MCProcesses
    Window = w
    OwnerOf <- MCOwnerOf
    Dir = Dir
    User = User
    NoOp = NoOp
    NoProc = NoProc
    OtherChange = OtherChange
    MaxRevision = 2
    MaxCrashes = 1
    MaxFaults = 1
    MaxTampers = 0
PROPERTIES NothingIsLeftOpen
CHECK_DEADLOCK FALSE
