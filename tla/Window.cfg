SPECIFICATION MCSpec
CONSTANTS
    i1 = i1
    i2 = i2
    r1 = r1
    p1 = p1
    p2 = p2
    w = w
    Installs <- MCInstalls
    Removals <- MCRemovals
    Packages <- MCPackages
    PackageOf <- MCPackageOf
    Processes <- MCProcesses
    Window = w
    OwnerOf <- MCOwnerOf
    Dir = Dir
    User = User
    NoOp = NoOp
    NoProc = NoProc
    OtherChange = OtherChange
    MaxRevision = 2
    MaxCrashes = 2
    MaxFaults = 2
    MaxTampers = 1
INVARIANTS TypeOK SettledConsistent RemovedModRecoverable JournalMatchesStore InstallFilesKept
PROPERTIES SuccessIsOneCommit SuccessIsProven CrashAloneHeals ImplementsAtomicChanges
CHECK_DEADLOCK FALSE
