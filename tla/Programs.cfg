SPECIFICATION MCSpec
CONSTANTS
    w = w
    v = v
    cli = cli
    install = install
    setup = setup
    toggle = toggle
    profile = profile
    game = game
    Processes <- MCProcesses
    Windows <- MCWindows
    Commands <- MCCommands
    Resources <- MCResources
    ProcessOf <- MCProcessOf
    ClaimOf <- MCClaimOf
    LockFirst = {setup}
    Judges = {install, toggle}
    NoProcess = NoProcess
    NoCommand = NoCommand
    MaxCrashes = 1
    Settings = {on, off}
    NoSetting = NoSetting
    Refused = TRUE
    MaxPresses = 3
    MaxReads = 3
    MaxMoves = 3
CHECK_DEADLOCK FALSE
INVARIANTS ClaimsAreExclusive WindowKeepsUp
PROPERTIES LiveWorkIsKnown NothingHangs
