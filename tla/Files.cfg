SPECIFICATION MCSpec
CONSTANTS
  none = none
  damaged = damaged
  link = link
  real = real
  other = other
  SaveOrder <- Folder
  NoFile = none
  Damaged = damaged
  MaxMoment = 1
  MaxBackups = 3
  MaxDeaths = 1
  KeepBackups = 1
  Settings = {"config", "data/config"}
  Assets = {"code", "art"}
  Texts = {2, 3, 4}
  Length <- Bytes
  Missing = none
  Installed <- Inventory
  Recipe <- Shared
  MaxKept = 2
  MaxEdits = 2
  KeepSettings = 1
  FolderPaths = {link, real, other}
  Canonical <- Leads
  NoGame = none
  MaxShelf = 3
  MaxShelfFaults = 1
  MaxShelfKills = 1
  MaxUses = 1
CHECK_DEADLOCK FALSE
PROPERTIES  OwnFilesAreSafe ShelfIsSound
