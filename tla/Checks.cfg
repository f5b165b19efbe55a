SPECIFICATION MCSpec
CONSTANTS
  KeyMarks = {"plain:", "auth:", "pass:", "hotkey:"}
  LeafMarks = {"words", "path", "F3", "7", "true"}
  MaxMarks = 7
  MaxDepth = 2
  a = a
  b = b
  c = c
  pack = pack
  other = other
  none = none
  Mods = {a, b, c}
  Packages = {pack, other}
  NoPackage = none
  Needs <- Chain
  Writers = {1}
  MaxNames = 2
  MaxFiles = 3
  MaxReplaced = 1
  MaxExportFaults = 1
  MaxInstallFaults = 1
  Absent = none
  Contents <- Packs
  SmapiSeen <- Smapis
  Pinned <- Newest
  MaxImported = 3
  LogMods <- InTheLog
  Expectations <- Expected
  NoMod = none
CHECK_DEADLOCK FALSE
INVARIANTS  LogIsReadRight
PROPERTIES  ReviewsAreTrue
