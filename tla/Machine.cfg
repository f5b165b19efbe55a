SPECIFICATION MCSpec
CONSTANTS
 Chosen <- MCChosen
 Key <- MCKey
 ManifestNames = {"man", "MAN"}
 NoDll = "none"
 MaxEntries = 4
 MaxEntryDepth = 3
 MaxUncompressed = 4
 RatioFloor = 2
 MaxRatio = 3
 MaxDisturbed = 2
 Names = {"A", "B", "C", "P", ".off", "man", "MAN", "config", "x", "y"}
 Folders <- MCFolders
 Changes <- MCChanges
 Dotted = {".B", ".off"}
 NoId = "none"
 Settings = "config"
 StoredAs <- MCStored
 MaxDepth = 1
 MaxEdits = 2
 Pids = {1, 2}
 Codes = {0}
 NoCode = none
 ExitCodesKept = 1
 Others <- MCOthers
 MaxOurs = 2
 MaxOthers = 1
 MaxRestarts = 1
 Programs = {p1, p2}
 Profiles = {r1, r2}
 Components = {"C", "D"}
 OldRows <- MCOldRows
 Users <- MCUsers
 Canonical <- MCCanonical
 Latest = 11
 MaxStops = 2
CHECK_DEADLOCK FALSE
INVARIANTS   UpgradeIsSafe
 
