CONSTANTS
  Clients = {1, 3}
  Leader = 2
  Side = "HEAD"
  Speakers = {1}
  Leavers = {}
  Faults = {}
  MaxFaults = 0
  MaxLeaderChats = 0
  UninitPriority = {100}
  MaxLag = 9
SPECIFICATION FairSpec
PROPERTY ChatComesBack
PROPERTY CatchesUp
CHECK_DEADLOCK FALSE
