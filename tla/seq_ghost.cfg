CONSTANTS
  Clients = {1, 3}
  Leader = 2
  Side = "HEAD"
  Speakers = {}
  Leavers = {3}
  Faults = {}
  MaxFaults = 0
  MaxLeaderChats = 0
  UninitPriority = {100}
  MaxLag = 9
SPECIFICATION Spec
INVARIANT UpToDateList
CHECK_DEADLOCK FALSE
