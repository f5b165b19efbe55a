SPECIFICATION MCSpec
CONSTANTS
    a = a
    b = b
    c = c
    a1 = a1
    a2 = a2
    b1 = b1
    ab = ab
    c1 = c1
    Mods = {a, b, c}
    Packages = {a1, a2, b1, ab}
    ModsOf <- MCModsOf
    Needs <- MCNeeds
    Order <- MCOrder
    Ignored = {b1}
    Kept = {a1, a2, b1, ab}
    NoPackage = NoPackage
    MaxAutomatic = 2
    MaxNamed = 1
    MaxFaults = 0
    MaxCrashes = 1
    MaxChains = 1
    MaxOutside = 1
    Folders = {1, 2, 3, 4, 5}
    None = None
    MaxCuts = 1
    MaxOwn = 1
    MaxSteps = 8
INVARIANTS NeverLeftWithout
CHECK_DEADLOCK FALSE
