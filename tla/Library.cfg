SPECIFICATION MCSpec
CONSTANTS
  a = a
  b = b
  p = p
  q = q
  mx = mx
  my = my
  none = none
  bad = bad
  alt = alt
  Programs = {a, b}
  Ids = {p, q}
  Packages = {mx, my}
  None = None
  Home = Home
  MaxJobs = 3
  MaxTrash = 1
  MaxRevision = 6
  MaxCrashes = 1
  MaxFaults = 2
  Releases = {1, 2, 3}
  Tested = 1
  Worlds <- SmapiSays
  Games = {11, 22}
  KeptInstallers = 2
  RangesPerRefresh = 2
  Altered = alt
  Junk = bad
  Nothing = none
  MaxSetups = 3
  MaxRefreshes = 2
  MaxMishaps = 1
CHECK_DEADLOCK FALSE
PROPERTIES  InstallersAreTrusted
