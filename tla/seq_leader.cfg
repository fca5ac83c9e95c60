CONSTANTS
  Clients = {}
  Leader = 2
  Side = "HEAD"
  Speakers = {}
  Leavers = {}
  Faults = {"duplicate"}
  MaxFaults = 1
  MaxLeaderChats = 3
  UninitPriority = {100}
  MaxLag = 9
SPECIFICATION FairSpec
PROPERTY LeaderLineSequenced
CHECK_DEADLOCK FALSE
