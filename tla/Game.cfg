SPECIFICATION MCSpec
CONSTANTS
  v1 = v1
  v2 = v2
  m1 = m1
  m2 = m2
  Versions = {v1, v2}
  Mods = {m1, m2}
  None = None
  NoRecord = NoRecord
  NoGood = NoGood
  MaxSetups = 1
  MaxCrashes = 1
  MaxFaults = 1
  MaxTouches = 1
  MaxSessions = 2
  MaxChanges = 1
  MaxOutside = 1
CHECK_DEADLOCK FALSE
PROPERTIES  GamesAreKnown GameSettles
