SPECIFICATION MCSpec
CONSTANTS
    i1 = i1
    i2 = i2
    r1 = r1
    r2 = r2
    p1 = p1
    w = w
    cli = cli
    Installs <- MCInstalls
    Removals <- MCRemovals
    Packages <- MCPackages
    PackageOf <- MCPackageOf
    Processes <- MCProcesses
    Window = w
    OwnerOf <- MCOwnerOf
    Dir = Dir
    User = User
    NoOp = NoOp
    NoProc = NoProc
    OtherChange = OtherChange
    MaxRevision = 1
    MaxCrashes = 1
    MaxFaults = 1
    MaxTampers = 1
    one = one
    aside1 = aside1
    many = many
    again = again
    pack = pack
    single = single
    a = a
    b = b
    c = c
    x = x
    y = y
    Tasks = {one, aside1, many, again}
    Programs = {w, cli}
    App = w
    Folders = {pack, single}
    Components = {a, b, c}
    Ids = {x, y}
    ProgramOf <- MCProgramOf
    KindOf <- MCKindOf
    FolderOf <- MCFolderOf
    IdOf <- MCIdOf
    Inventoried = {pack}
    Nobody = Nobody
    Recovery = Recovery
    NoFolder = NoFolder
    NoPreview = NoPreview
    MaxKills = 1
    MaxFailures = 1
    MaxStrays = 1
INVARIANTS InstalledModNeverLost RecordedIsSucceeded  
PROPERTIES UserFilesKept SettledStaysSettled RequestsComeTrue
CHECK_DEADLOCK FALSE
